---------------------------- MODULE Spec2Model ----------------------------
(***************************************************************************)
(* A model of clawlet's cron package (the cron-expression parser and the   *)
(* persistent job service) and of the message bus with its two consumers.  *)
(*                                                                         *)
(* Further parts: the channel manager with the adapters' Start, Stop and   *)
(* Send (SpecChan).                                                        *)
(*                                                                         *)
(* The specifications that share the module:                               *)
(*   Spec      the cron Service: Start, Stop, Add, Remove, Toggle, RunNow, *)
(*             the timer callback onTimer and execute, interleaved at the  *)
(*             points where the code releases its mutex;                   *)
(*   SpecRepeat  the cron Service left running with repeating jobs, with   *)
(*             fairness;                                                   *)
(*   SpecOnce  the cron Service left running with a reminder, with         *)
(*             fairness;                                                   *)
(*   SpecGateway  the goroutines of the gateway that start turns;          *)
(*   SpecConsol  Agent.scheduleConsolidation and its goroutine;            *)
(*   SpecSweeps  the running cron Service with Stop, Start and Remove and  *)
(*             timer callbacks that overlap;                               *)
(*   SpecNext  the pure cron functions parseCron5, cronSchedule.Next and   *)
(*             cronSchedule.dayMatches applied to bounded inputs;          *)
(*   SpecBus   the two bus queues with Loop.Run and dispatchOutbound.      *)
(*   SpecBusShared  the bus queues with two readers each;                  *)
(*   SpecChan  Manager.StartAll, StopAll, the Start goroutines and Send;   *)
(*   SpecAllow AllowList.Allowed under the adapters' inbound handlers;     *)
(*   SpecTurn  the tool-calling loops of the agent and Loop.Run;           *)
(*   SpecTools Registry.Definitions and Registry.Execute;                  *)
(*   SpecBeat  heartbeat.Service: the ticking loop and TriggerNow;         *)
(*   SpecLife  heartbeat.Service: Start and Stop in any order;             *)
(*   SpecWa    whatsapp.Channel.Send and its retries;                      *)
(*   SpecReply heartbeat.Service.tick: the reply and the log;              *)
(*   SpecChunk chunkMarkdown on a file of one line;                        *)
(*   SpecIndex memory.IndexManager: Sync over the memory files;            *)
(*   SpecSpawn the spawn tool, the subagents' announcements and the turns  *)
(*             on the `system` channel (SpecSpawnLive: with fairness).     *)
(* Each specification holds the variables of the others at their initial   *)
(* values.                                                                 *)
(*                                                                         *)
(* Time.  The service clock `now` counts milliseconds since the instant    *)
(* BaseMin (minutes since the Unix epoch), because TLC's integers are 32   *)
(* bits wide and real Unix milliseconds are not.  A time.Time is a record  *)
(* [min, ms]: whole minutes since the Unix epoch (UTC, no DST) and the     *)
(* milliseconds into that minute.                                          *)
(***************************************************************************)
EXTENDS Integers, Sequences, FiniteSets, TLC

VARIABLES
    \* ---- cron.Service ----
    store,      \* s.store.Jobs as persisted in cron.json (every operation reloads it)
    running,    \* s.running
    timer,      \* fire time of the pending time.AfterFunc timer, 0 when none is pending
    now,        \* the wall clock, ms since BaseMin
    calls,      \* calls of Service methods and clock advances so far (bounds the run)
    nextId,     \* the next value newID() returns
    sweep,      \* the onTimer callback in flight: its position and locals
    rn,         \* the RunNow call in flight: its position and locals
    ret,        \* what Add or RunNow has just returned, until the caller takes it
    \* ---- cron expression functions ----
    cExpr,      \* the expression under evaluation
    cTime,      \* the time Next is asked about
    cN1,        \* Next(E, t)
    cN2,        \* Next(E, Next(E, t))
    cDay,       \* dayMatches(E, t)
    cPc,        \* position of the evaluation
    \* ---- bus ----
    inQ,        \* the inbound queue
    outQ,       \* the outbound queue
    pubIn,      \* every message published inbound, in order
    conIn,      \* every message consumed inbound, in order
    pubOut,     \* every message published outbound, in order
    conOut,     \* every message consumed outbound, in order
    loopMsg,    \* the message Loop.Run is processing, or NoMsg
    sent,       \* the Send calls of the dispatcher, in order: the channel and the message
    \* ---- bus, further readers and failed publishes ----
    otherIn,    \* what a second reader has consumed from the inbound queue, in order
    otherOut,   \* what a second reader has consumed from the outbound queue, in order
    canceled,   \* whether a publish has failed with Canceled while its queue was full
    \* ---- channels.Manager and the channel adapters ----
    mgrRunning,   \* Manager.running
    stopOnce,     \* Manager.stopOnce has fired
    dispatcherUp, \* the dispatchOutbound goroutine has been started
    startAllRet,  \* StartAll has returned to its caller
    cfgOk,        \* per adapter: its configuration lets Start get to a client
    chPc,         \* per adapter: where its Start goroutine is
    chRunning,    \* per adapter: Channel.running
    chClient,     \* per adapter: the client handle (c.api, c.dg, c.wa) is set
    delivered,    \* outbound messages the dispatcher has taken for a registered channel
    sendCalls,    \* calls of Channel.Send so far
    lastSend,     \* the latest Send: its channel, the channel's state, and the result
    \* ---- channels.AllowList and the adapters' inbound handlers ----
    allowFrom,    \* AllowList.AllowFrom of the adapters
    ev,           \* the latest transport event and what its handler did with it
    \* ---- the agent: Loop.Run, processDirect, Agent.Process, runSubagent ----
    maxIters,     \* Loop.maxIters / Agent.maxIters
    loopAlive,    \* Loop.Run has not returned
    ctxDone,      \* the root context is cancelled
    turns,        \* turns and subagent runs started so far (bounds the run)
    tKind,        \* whose loop is running: "loop", "direct", "agent", "sub", or "none"
    tPc,          \* idle, calling (in the for loop), or how the turn returned
    tMsg,         \* the inbound message of the turn
    iter,         \* the loop counter
    chatCalls,    \* calls of llm.Chat in this turn
    lastText,     \* the latest non-blank content of a model response in this turn
    tRet,         \* the text the turn returned
    messages,     \* the prompt of the turn: the kinds of its messages, in order
    session,      \* sess.Messages of every session, by key
    saved,        \* the session as last saved
    gwOut,        \* what Loop.Run has published outbound, in order
    \* ---- SubagentManager.Spawn and the announcements of the subagents ----
    subs,         \* the goroutines Spawn has started, by task: origin, position, result
    sysIn,        \* the inbound queue: the announcements not yet consumed, in order
    \* ---- tools.Registry ----
    reg,          \* the Registry: its capability fields that are set, its AllowTools
    call,         \* the Execute under way: its arguments and what it returned and did
    defs,         \* the names Definitions has returned
    \* ---- heartbeat.Service ----
    hbRunning,    \* Service.running
    hbStop,       \* stopCh is closed
    hbLoop,       \* the loop goroutine: "none", in its select, or in the handler of a tick
    hbTick,       \* ticks waiting in the channel of the ticker (at most one)
    hbInFlight,   \* Service.inFlight
    hbManual,     \* calls of TriggerNow that are in the handler
    beats,        \* invocations of the handler so far (bounds the run)
    \* ---- memory.IndexManager ----
    disk,         \* the memory files of the workspace: path to lines, or Absent
    files,        \* table files: path to hash, or Absent
    chunks,       \* table chunks: rows [id, path, model]
    chunks_vec,   \* table chunks_vec: ids
    chunks_fts,   \* table chunks_fts: rows [id, path, model]
    embedding_cache, \* table embedding_cache: <<model, hash>>
    meta,         \* the meta row memory_index_meta_v1, or NoMeta
    cfg,          \* IndexManager.cfg
    vectorReady,  \* IndexManager.vectorReady
    vectorDims,   \* IndexManager.vectorDims
    dirty,        \* a file or the configuration changed since the last sync that succeeded
    lastSync,     \* the last Sync since then: forced, succeeded, wrote rows, called the endpoint
    \* ---- cron.Service, a second timer callback ----
    sweep2,       \* an onTimer callback that began while the one in `sweep` had not returned
    \* ---- the gateway: the goroutines that start turns ----
    gIn,          \* the inbound queue of the gateway's bus
    gLoop,        \* the turn Loop.Run is in, or NoTurn
    gBeat,        \* the turn the heartbeat's handler is in, or NoTurn
    gSubs,        \* the origins of the subagents that have not announced
    gEvents,      \* messages, cron fires, heartbeats and spawns so far (bounds the run)
    \* ---- Agent.scheduleConsolidation ----
    consolidationRunning, \* Agent.consolidationRunning
    consWorking,  \* consolidation goroutines in maybeConsolidateSession
    consSaving,   \* consolidation goroutines in session.Save
    aProc,        \* calls of Agent.Process that have not returned
    consAsked,    \* calls of scheduleConsolidation so far (bounds the run)
    consStarted,  \* calls that started a goroutine
    consDropped,  \* calls that found a consolidation in flight and returned
    \* ---- heartbeat.Service, Start and Stop in any order ----
    lRunning,     \* Service.running
    lStopCh,      \* stopCh is closed
    lStoppedCh,   \* stoppedCh is closed
    lCtx,         \* the context given to Start is cancelled
    lTick,        \* the loop's ticker holds a tick in t.C
    lSelect,      \* loop goroutines in their select
    lHandler,     \* loop goroutines in Service.tick
    lWaiting,     \* the call of Stop that waits on stoppedCh (0 or 1)
    lStopped,     \* Stop has returned and Start has not been called since
    lPanic,       \* the panic that ended the process, or ""
    lCalls,       \* calls of Start and Stop so far (bounds the run)
    \* ---- whatsapp.Channel.Send ----
    waPc,         \* Channel.Send: idle, attempt (in wa.SendMessage) or wait (in the select)
    waAttempt,    \* the loop variable attempt
    waErr,        \* err, the result of the last wa.SendMessage
    waCtx,        \* the context of the Send is cancelled
    waCalls,      \* calls of wa.SendMessage by this Send
    waRet,        \* what the last Send returned
    waSends,      \* calls of Send so far (bounds the run)
    \* ---- heartbeat.Service.tick: the reply of the handler ----
    rpPc,         \* Service.tick: idle, or done after a call of the handler
    rpReply,      \* resp, what the handler returned
    rpErr,        \* the handler returned an error
    rpLog,        \* what the tick wrote to the log
    \* ---- chunkMarkdown on a file of one line ----
    ckPc,         \* idle, or done after chunkMarkdown
    ckLen,        \* the bytes of the one line of the file
    ckNewline,    \* the file ends with a newline
    ckTokens,     \* chunking.tokens as NewIndexManager leaves it
    ckOverlap,    \* chunking.overlap as NewIndexManager leaves it
    ckChunks      \* what chunkMarkdown returned

cronVars == <<store, running, timer, now, calls, nextId, sweep, rn, ret>>
nextVars == <<cExpr, cTime, cN1, cN2, cDay, cPc>>
busVars  == <<inQ, outQ, pubIn, conIn, pubOut, conOut, loopMsg, sent>>
readerVars == <<otherIn, otherOut, canceled>>
\* The variables outside the cron service, the cron functions and the bus proper.
chanVars == <<mgrRunning, stopOnce, dispatcherUp, startAllRet, cfgOk, chPc,
              chRunning, chClient, delivered, sendCalls, lastSend>>
allowVars == <<allowFrom, ev>>
turnVars == <<maxIters, loopAlive, ctxDone, turns, tKind, tPc, tMsg, iter, chatCalls,
              lastText, tRet, messages, session, saved, gwOut>>
spawnVars == <<subs, sysIn>>
\* The variables of the further parts.
toolVars == <<reg, call, defs>>
beatVars == <<hbRunning, hbStop, hbLoop, hbTick, hbInFlight, hbManual, beats>>
indexVars == <<disk, files, chunks, chunks_vec, chunks_fts, embedding_cache, meta, cfg,
               vectorReady, vectorDims, dirty, lastSync>>
\* The variables of the parts added last.
overlapVars == <<sweep2>>
gateVars == <<gIn, gLoop, gBeat, gSubs, gEvents>>
consolVars == <<consolidationRunning, consWorking, consSaving, aProc, consAsked, consStarted, consDropped>>
lifeVars == <<lRunning, lStopCh, lStoppedCh, lCtx, lTick, lSelect, lHandler, lWaiting, lStopped, lPanic, lCalls>>
waVars == <<waPc, waAttempt, waErr, waCtx, waCalls, waRet, waSends>>
replyVars == <<rpPc, rpReply, rpErr, rpLog>>
chunkVars == <<ckPc, ckLen, ckNewline, ckTokens, ckOverlap, ckChunks>>
lateVars == <<overlapVars, gateVars, consolVars, lifeVars, waVars, replyVars, chunkVars>>
moreVars == <<spawnVars, toolVars, beatVars, indexVars, lateVars>>
extVars  == <<readerVars, chanVars, allowVars, turnVars, moreVars>>
\* What the further readers, and what the channels, leave alone.
othersOfReaders == <<cronVars, nextVars, chanVars, allowVars, turnVars, moreVars>>
othersOfChan    == <<cronVars, nextVars, busVars, readerVars, allowVars, turnVars, moreVars>>
othersOfAllow   == <<cronVars, nextVars, busVars, readerVars, chanVars, turnVars, moreVars>>
othersOfTurn    == <<cronVars, nextVars, busVars, readerVars, chanVars, allowVars, moreVars>>
\* What the agent with its subagents leaves alone.
othersOfSpawn   == <<cronVars, nextVars, busVars, readerVars, chanVars, allowVars, toolVars,
                     beatVars, indexVars, lateVars>>
\* What the tool registry leaves alone.
othersOfTools   == <<cronVars, nextVars, busVars, readerVars, chanVars, allowVars, turnVars,
                     spawnVars, beatVars, indexVars, lateVars>>
\* What the heartbeat leaves alone.
othersOfBeat    == <<cronVars, nextVars, busVars, readerVars, chanVars, allowVars, turnVars,
                     spawnVars, toolVars, indexVars, lateVars>>
\* What the memory index leaves alone.
othersOfIndex   == <<cronVars, nextVars, busVars, readerVars, chanVars, allowVars, turnVars,
                     spawnVars, toolVars, beatVars, lateVars>>
\* Everything but the cron service and the parts added last.
earlyVars == <<nextVars, busVars, readerVars, chanVars, allowVars, turnVars, spawnVars,
               toolVars, beatVars, indexVars>>
\* What each of the parts added last leaves alone, the cron service apart.
besideOverlap == <<earlyVars, gateVars, consolVars, lifeVars, waVars, replyVars, chunkVars>>
besideGate == <<earlyVars, overlapVars, consolVars, lifeVars, waVars, replyVars, chunkVars>>
besideConsol == <<earlyVars, overlapVars, gateVars, lifeVars, waVars, replyVars, chunkVars>>
besideLife == <<earlyVars, overlapVars, gateVars, consolVars, waVars, replyVars, chunkVars>>
besideWa == <<earlyVars, overlapVars, gateVars, consolVars, lifeVars, replyVars, chunkVars>>
besideReply == <<earlyVars, overlapVars, gateVars, consolVars, lifeVars, waVars, chunkVars>>
besideChunk == <<earlyVars, overlapVars, gateVars, consolVars, lifeVars, waVars, replyVars>>
vars     == <<cronVars, nextVars, busVars, extVars>>

-----------------------------------------------------------------------------
(* Go's time package, UTC.                                                 *)

MinutesPerDay == 24 * 60

\* time.Time{}: January 1, year 1, 00:00 UTC, in minutes since the Unix epoch.
ZeroTimeMin == -1035593280

ZeroTime == [min |-> ZeroTimeMin, ms |-> 0]

DayNo(t) == t.min \div MinutesPerDay

\* Days since the Unix epoch -> proleptic Gregorian date [y, m, d], by way of
\* the 400-year era, the day and year of the era, the day of the year and the
\* month counted from March.
CivilOfMonth(y, d, m) == [y |-> y + (IF m <= 2 THEN 1 ELSE 0), m |-> m, d |-> d]
CivilOfMp(era, yoe, doy, mp) ==
    CivilOfMonth(yoe + era * 400, doy - (153 * mp + 2) \div 5 + 1,
                 IF mp < 10 THEN mp + 3 ELSE mp - 9)
CivilOfDoy(era, yoe, doy) == CivilOfMp(era, yoe, doy, (5 * doy + 2) \div 153)
CivilOfYoe(era, doe, yoe) ==
    CivilOfDoy(era, yoe, doe - (365 * yoe + yoe \div 4 - yoe \div 100))
CivilOfDoe(era, doe) ==
    CivilOfYoe(era, doe, (doe - doe \div 1460 + doe \div 36524 - doe \div 146096) \div 365)
CivilOfEra(z) == CivilOfDoe(z \div 146097, z % 146097)
Civil(days) == CivilOfEra(days + 719468)

\* Proleptic Gregorian date -> days since the Unix epoch.
DaysOfYoe(era, yoe, doy) ==
    era * 146097 + yoe * 365 + yoe \div 4 - yoe \div 100 + doy - 719468
DaysOfYear(y1, doy) == DaysOfYoe(y1 \div 400, y1 % 400, doy)
DaysFromCivil(y, m, d) ==
    DaysOfYear(IF m <= 2 THEN y - 1 ELSE y,
               (153 * (IF m > 2 THEN m - 3 ELSE m + 9) + 2) \div 5 + d - 1)

Year(t)    == Civil(DayNo(t)).y
Month(t)   == Civil(DayNo(t)).m
Day(t)     == Civil(DayNo(t)).d
Hour(t)    == (t.min % MinutesPerDay) \div 60
Minute(t)  == t.min % 60
\* time.Weekday: Sunday = 0; the Unix epoch was a Thursday.
Weekday(t) == (DayNo(t) + 4) % 7

\* time.Date(y, m, d, h, mi, 0, 0, UTC); months and days out of range are normalised.
Date(y, m, d, h, mi) ==
    [min |-> (DaysFromCivil(y + (m - 1) \div 12, ((m - 1) % 12) + 1, 1) + d - 1)
                * MinutesPerDay + h * 60 + mi,
     ms  |-> 0]

\* t.AddDate(0, months, days)
AddCivil(c, t, months, days) ==
    [min |-> Date(c.y, c.m + months, c.d + days, Hour(t), Minute(t)).min, ms |-> t.ms]
AddDate(t, months, days) == AddCivil(Civil(DayNo(t)), t, months, days)

\* t.Add(minutes * time.Minute)
AddMinutes(t, minutes) == [min |-> t.min + minutes, ms |-> t.ms]

TimeLess(a, b) == a.min < b.min \/ (a.min = b.min /\ a.ms < b.ms)

-----------------------------------------------------------------------------
(* Cron expressions.  An expression is the sequence of its whitespace-     *)
(* separated fields; a field is the sequence of its comma-separated        *)
(* segments; a segment is what strings.Cut and strconv.Atoi make of it:    *)
(*   base    "star" for * or ?, "range" for a-b, "value" for a single      *)
(*           value, "bad" for text that is neither a number nor a name     *)
(*   lo, hi  the value(s) (lo = hi for a single value)                     *)
(*   hasStep whether the segment has a /n part, and step its n             *)
(***************************************************************************)

cronMinuteBounds == [min |-> 0, max |-> 59]
cronHourBounds   == [min |-> 0, max |-> 23]
cronDomBounds    == [min |-> 1, max |-> 31]
cronMonthBounds  == [min |-> 1, max |-> 12]
cronDowBounds    == [min |-> 0, max |-> 7]

ParseError == [ok |-> FALSE, bits |-> {}, star |-> FALSE]

\* The set of bit positions buildBits sets.
buildBits(start, end, step, isDow) ==
    { IF isDow /\ v = 7 THEN 0 ELSE v :
        v \in { x \in start..end : (x - start) % step = 0 } }

parseCronSegment(seg, bounds, isDow) ==
    LET hasStep == seg.hasStep
        step    == IF hasStep THEN seg.step ELSE 1
        start   == IF seg.base = "star" THEN bounds.min ELSE seg.lo
        end     == IF seg.base = "star" THEN bounds.max
                   ELSE IF seg.base = "range" THEN seg.hi
                   ELSE IF hasStep THEN bounds.max ELSE seg.lo
        star    == seg.base = "star" /\ step = 1
    IN  IF hasStep /\ step <= 0 THEN ParseError
        ELSE IF seg.base = "bad" THEN ParseError
        ELSE IF start < bounds.min \/ start > bounds.max THEN ParseError
        ELSE IF end < bounds.min \/ end > bounds.max THEN ParseError
        ELSE IF end < start THEN ParseError
        ELSE [ok |-> TRUE, bits |-> buildBits(start, end, step, isDow), star |-> star]

parseCronField(field, bounds, isDow) ==
    LET parts == [i \in 1..Len(field) |-> parseCronSegment(field[i], bounds, isDow)]
        bits  == UNION { parts[i].bits : i \in 1..Len(field) }
    IN  IF Len(field) = 0 THEN ParseError
        ELSE IF \E i \in 1..Len(field) : ~parts[i].ok THEN ParseError
        ELSE IF bits = {} THEN ParseError
        ELSE [ok |-> TRUE, bits |-> bits,
              star |-> \E i \in 1..Len(field) : parts[i].star]

NoSchedule ==
    [ok |-> FALSE, minute |-> {}, hour |-> {}, dom |-> {}, month |-> {}, dow |-> {},
     domStar |-> FALSE, dowStar |-> FALSE]

parseCron5(expr) ==
    IF Len(expr) # 5 THEN NoSchedule
    ELSE LET minute == parseCronField(expr[1], cronMinuteBounds, FALSE)
             hour   == parseCronField(expr[2], cronHourBounds, FALSE)
             dom    == parseCronField(expr[3], cronDomBounds, FALSE)
             month  == parseCronField(expr[4], cronMonthBounds, FALSE)
             dow    == parseCronField(expr[5], cronDowBounds, TRUE)
         IN  IF ~(minute.ok /\ hour.ok /\ dom.ok /\ month.ok /\ dow.ok) THEN NoSchedule
             ELSE [ok |-> TRUE, minute |-> minute.bits, hour |-> hour.bits,
                   dom |-> dom.bits, month |-> month.bits, dow |-> dow.bits,
                   domStar |-> dom.star, dowStar |-> dow.star]

hasBit(bits, value) == value >= 0 /\ value <= 63 /\ value \in bits

dayMatches_orOnly(s, t) ==
    hasBit(s.dom, Day(t)) \/ hasBit(s.dow, Weekday(t))

dayMatches(s, t) ==
    LET domMatch == hasBit(s.dom, Day(t))
        dowMatch == hasBit(s.dow, Weekday(t))
    IN  IF s.domStar \/ s.dowStar THEN domMatch /\ dowMatch
        ELSE domMatch \/ dowMatch

Least(S) == CHOOSE x \in S : \A y \in S : x <= y

(* cronSchedule.Next.  One pass of the code from the label WRAP through    *)
(* its four loops is PassMonth, PassDay, PassHour and PassMinute: the pass *)
(* ends with the answer, or with `goto WRAP` at a later t.  `added` is the *)
(* local of that name.  Each loop advances t one unit at a time until its  *)
(* field matches or the unit wraps; the *Loop operators compute the number *)
(* of iterations the loop makes as the least count at which one of the two *)
(* exits is taken, t1 being t after the `if !added` reset.                 *)
Answer(t) == [wrap |-> FALSE, t |-> t]
GotoWrap(t) == [wrap |-> TRUE, t |-> t]

MinuteExit(t2) == IF Minute(t2) = 0 THEN GotoWrap(t2) ELSE Answer(t2)
MinuteLoop(s, t1) ==
    MinuteExit(AddMinutes(t1, Least({ n \in 1..60 :
                        \/ Minute(AddMinutes(t1, n)) = 0
                        \/ hasBit(s.minute, Minute(AddMinutes(t1, n))) })))
PassMinute(s, t, added) ==
    IF hasBit(s.minute, Minute(t)) THEN Answer(t)
    ELSE MinuteLoop(s, IF ~added THEN [min |-> t.min, ms |-> 0] ELSE t)

HourExit(s, t2, hit, added) ==
    IF ~hit /\ Hour(t2) = 0 THEN GotoWrap(t2) ELSE PassMinute(s, t2, added \/ ~hit)
HourLoop(s, t1) ==
    AddMinutes(t1, 60 * Least({ n \in 1..24 :
                        \/ Hour(AddMinutes(t1, 60 * n)) = 0
                        \/ hasBit(s.hour, Hour(AddMinutes(t1, 60 * n))) }))
HourBody(s, t, hit, added) ==
    HourExit(s,
             IF hit THEN t
             ELSE HourLoop(s, IF ~added THEN Date(Year(t), Month(t), Day(t), Hour(t), 0)
                              ELSE t),
             hit, added)
PassHour(s, t, added) == HourBody(s, t, hasBit(s.hour, Hour(t)), added)

\* The step of the day loop: a day later, re-anchored to midnight.
DayAnchor(t2, h) ==
    IF h = 0 THEN t2
    ELSE IF h > 12 THEN AddMinutes(t2, (24 - h) * 60)
    ELSE AddMinutes(t2, (0 - h) * 60)
DayStepOf(t2) == DayAnchor(t2, Hour(t2))
DayStep(t) == DayStepOf(AddDate(t, 0, 1))

DayExit(s, t3, hit, added) ==
    IF ~hit /\ Day(t3) = 1 THEN GotoWrap(t3) ELSE PassHour(s, t3, added \/ ~hit)
DayLoopFrom(s, t2) ==
    AddDate(t2, 0, Least({ n \in 0..31 :
                        \/ Day(AddDate(t2, 0, n)) = 1
                        \/ dayMatches(s, AddDate(t2, 0, n)) }))
DayLoop(s, t1) == DayLoopFrom(s, DayStep(t1))
DayBody(s, t, hit, added) ==
    DayExit(s,
            IF hit THEN t
            ELSE DayLoop(s, IF ~added THEN Date(Year(t), Month(t), Day(t), 0, 0) ELSE t),
            hit, added)
PassDay(s, t, added) == DayBody(s, t, dayMatches(s, t), added)

MonthExit(s, t2, hit, added) ==
    IF ~hit /\ Month(t2) = 1 THEN GotoWrap(t2) ELSE PassDay(s, t2, added \/ ~hit)
MonthLoop(s, t1) ==
    AddDate(t1, Least({ n \in 1..12 :
                        \/ Month(AddDate(t1, n, 0)) = 1
                        \/ hasBit(s.month, Month(AddDate(t1, n, 0))) }), 0)
MonthBody(s, t, hit, added) ==
    MonthExit(s,
              IF hit THEN t
              ELSE MonthLoop(s, IF ~added THEN Date(Year(t), Month(t), 1, 0, 0) ELSE t),
              hit, added)
PassMonth(s, t, added) == MonthBody(s, t, hasBit(s.month, Month(t)), added)

RECURSIVE NextWrap(_, _, _, _)
NextAfterPass(s, r, yearLimit) ==
    IF r.wrap THEN NextWrap(s, r.t, TRUE, yearLimit) ELSE r.t
NextWrap(s, t, added, yearLimit) ==
    IF Year(t) > yearLimit THEN ZeroTime
    ELSE NextAfterPass(s, PassMonth(s, t, added), yearLimit)

\* Next from the first candidate minute t0.
NextFrom(s, t0) == NextWrap(s, t0, FALSE, Year(t0) + 5)

\* A Next that forgets to step past t: it answers t itself when t matches.
Next_noStep(s, t) == NextFrom(s, [min |-> t.min, ms |-> 0])

\* cronSchedule.Next: the first matching minute strictly after t, or the zero
\* time when the search passes the fifth year.
Next(s, t) == NextFrom(s, [min |-> t.min + 1, ms |-> 0])

-----------------------------------------------------------------------------
(* SpecNext: parseCron5, dayMatches and Next on bounded inputs.            *)

Star        == [base |-> "star",  lo |-> 0, hi |-> 0, hasStep |-> FALSE, step |-> 0]
StarStep(n) == [base |-> "star",  lo |-> 0, hi |-> 0, hasStep |-> TRUE,  step |-> n]
Val(v)      == [base |-> "value", lo |-> v, hi |-> v, hasStep |-> FALSE, step |-> 0]
ValStep(v, n) == [base |-> "value", lo |-> v, hi |-> v, hasStep |-> TRUE, step |-> n]
Rng(a, b)   == [base |-> "range", lo |-> a, hi |-> b, hasStep |-> FALSE, step |-> 0]
Bad         == [base |-> "bad",   lo |-> 0, hi |-> 0, hasStep |-> FALSE, step |-> 0]

ExprEveryMinute == << <<Star>>, <<Star>>, <<Star>>, <<Star>>, <<Star>> >>          \* * * * * *
ExprEvenMinutes == << <<StarStep(2)>>, <<Star>>, <<Star>>, <<Star>>, <<Star>> >>   \* */2 * * * *
ExprWeekdays9   == << <<Val(0)>>, <<Val(9)>>, <<Star>>, <<Star>>, <<Rng(1, 5)>> >> \* 0 9 * * 1-5
ExprFeb30       == << <<Val(0)>>, <<Val(0)>>, <<Val(30)>>, <<Val(2)>>, <<Star>> >> \* 0 0 30 2 *
ExprFeb29       == << <<Val(0)>>, <<Val(0)>>, <<Val(29)>>, <<Val(2)>>, <<Star>> >> \* 0 0 29 2 *
ExprDomOrDow    == << <<Val(0)>>, <<Val(0)>>, <<Val(1), Val(15)>>, <<Star>>, <<Val(1)>> >>  \* 0 0 1,15 * 1
ExprOddDaysSun  == << <<Val(30)>>, <<Val(12)>>, <<StarStep(2)>>, <<Star>>, <<Val(7)>> >>    \* 30 12 */2 * 7
ExprDomOnly     == << <<Val(0)>>, <<Val(0)>>, <<Val(13)>>, <<Star>>, <<Star>> >>   \* 0 0 13 * *
ExprAllDom      == << <<Val(0)>>, <<Val(0)>>, <<Rng(1, 31)>>, <<Star>>, <<Val(3)>> >>       \* 0 0 1-31 * 3
ExprNotACron    == << <<Bad>>, <<Bad>>, <<Bad>> >>                                 \* not a cron
ExprMinute60    == << <<Val(60)>>, <<Star>>, <<Star>>, <<Star>>, <<Star>> >>       \* 60 * * * *
ExprStepZero    == << <<StarStep(0)>>, <<Star>>, <<Star>>, <<Star>>, <<Star>> >>    \* */0 * * * *
ExprFrom50By5   == << <<ValStep(50, 5)>>, <<Star>>, <<Star>>, <<Star>>, <<Star>> >> \* 50/5 * * * *
ExprBackwards   == << <<Rng(5, 1)>>, <<Star>>, <<Star>>, <<Star>>, <<Star>> >>     \* 5-1 * * * *

Exprs ==
    { ExprEveryMinute, ExprEvenMinutes, ExprWeekdays9, ExprFeb30, ExprFeb29,
      ExprDomOrDow, ExprOddDaysSun, ExprDomOnly, ExprAllDom,
      ExprFrom50By5, ExprNotACron, ExprMinute60, ExprStepZero, ExprBackwards }

\* 2026-02-13 is a Friday.
Times ==
    { Date(2026, 2, 13, 10, 0),
      [min |-> Date(2026, 2, 13, 8, 59).min, ms |-> 59999],
      Date(2026, 2, 14, 23, 59),
      Date(2026, 2, 15, 0, 0),
      Date(2026, 2, 16, 9, 0),
      Date(2026, 2, 18, 12, 30),
      Date(2026, 2, 28, 23, 59),
      Date(2026, 3, 1, 0, 0),
      Date(2026, 12, 31, 23, 59),
      Date(2028, 2, 28, 23, 0),
      Date(2092, 3, 1, 0, 0) }

InitNext ==
    /\ cExpr \in Exprs
    /\ cTime \in Times
    /\ cN1 = ZeroTime
    /\ cN2 = ZeroTime
    /\ cDay = FALSE
    /\ cPc = "start"

\* parseCron5 accepts the expression; dayMatches is asked about t.
ParseOk ==
    /\ cPc = "start"
    /\ parseCron5(cExpr).ok
    /\ cDay' = dayMatches(parseCron5(cExpr), cTime)
    /\ cPc' = "parsed"
    /\ UNCHANGED <<cExpr, cTime, cN1, cN2, cronVars, busVars, extVars>>

\* parseCron5 returns an error.
ParseFail ==
    /\ cPc = "start"
    /\ ~parseCron5(cExpr).ok
    /\ cPc' = "rejected"
    /\ UNCHANGED <<cExpr, cTime, cN1, cN2, cDay, cronVars, busVars, extVars>>

NextOnce ==
    /\ cPc = "parsed"
    /\ cN1' = Next(parseCron5(cExpr), cTime)
    /\ cPc' = "n1"
    /\ UNCHANGED <<cExpr, cTime, cN2, cDay, cronVars, busVars, extVars>>

NextTwice ==
    /\ cPc = "n1"
    /\ cN2' = Next(parseCron5(cExpr), cN1)
    /\ cPc' = "n2"
    /\ UNCHANGED <<cExpr, cTime, cN1, cDay, cronVars, busVars, extVars>>

NextNext == ParseOk \/ ParseFail \/ NextOnce \/ NextTwice

-----------------------------------------------------------------------------
(* SpecBus: the bus (bus.New(capacity)) and its two consumers.             *)

NoMsg == [id |-> 0, channel |-> ""]

\* The channels registered with the Manager, and one that is not.
Registered == {"slack", "discord"}
Channels   == Registered \cup {"nowhere"}

\* Capacity of each queue (bus.New(256) in the gateway), scaled down.
QueueCap == 2
\* Messages published to each queue in one run.
MaxMsgs == 3

\* Publish*: the message joins the queue at its tail.
busPublish(q, m) == Append(q, m)

\* The message at the tail of the queue.
busNext_lifo(q) == q[Len(q)]

\* Consume*: the message at the head of the queue.
busNext(q) == Head(q)

busRest(q) == Tail(q)

\* Manager.channels after Manager.Add: each channel under its own Name().
ManagerChannels == [n \in Registered |-> n]

\* The record of one ch.Send(ctx, msg).
SendCall(ch, msg) == [on |-> ch, msg |-> msg]

InitBus ==
    /\ inQ = <<>>
    /\ outQ = <<>>
    /\ pubIn = <<>>
    /\ conIn = <<>>
    /\ pubOut = <<>>
    /\ conOut = <<>>
    /\ loopMsg = NoMsg
    /\ sent = <<>>

\* A channel adapter, the cron handler or a subagent publishes an inbound message;
\* it blocks while the queue is full.
PublishInbound ==
    /\ Len(pubIn) < MaxMsgs
    /\ Len(inQ) < QueueCap
    /\ \E c \in Channels :
         LET m == [id |-> Len(pubIn) + 1, channel |-> c]
         IN  /\ inQ' = busPublish(inQ, m)
             /\ pubIn' = Append(pubIn, m)
    /\ UNCHANGED <<outQ, conIn, pubOut, conOut, loopMsg, sent, cronVars, nextVars, extVars>>

\* A loop that reads the head of the inbound queue and leaves it there.
LoopConsume_peeks ==
    /\ loopMsg = NoMsg
    /\ inQ # <<>>
    /\ loopMsg' = busNext(inQ)
    /\ conIn' = Append(conIn, busNext(inQ))
    /\ UNCHANGED <<inQ, outQ, pubIn, pubOut, conOut, sent, cronVars, nextVars, extVars>>

\* Loop.Run: ConsumeInbound.
LoopConsume ==
    /\ loopMsg = NoMsg
    /\ inQ # <<>>
    /\ loopMsg' = busNext(inQ)
    /\ inQ' = busRest(inQ)
    /\ conIn' = Append(conIn, busNext(inQ))
    /\ UNCHANGED <<outQ, pubIn, pubOut, conOut, sent, cronVars, nextVars, extVars>>

\* Loop.Run: processInbound produced a reply (or an error with a reply target),
\* which is published outbound.
LoopReply ==
    /\ loopMsg # NoMsg
    /\ Len(pubOut) < MaxMsgs
    /\ Len(outQ) < QueueCap
    /\ LET m == [id |-> Len(pubOut) + 1, channel |-> loopMsg.channel]
       IN  /\ outQ' = busPublish(outQ, m)
           /\ pubOut' = Append(pubOut, m)
    /\ loopMsg' = NoMsg
    /\ UNCHANGED <<inQ, pubIn, conIn, conOut, sent, cronVars, nextVars, extVars>>

\* Loop.Run: nothing to publish for this message.
LoopSilent ==
    /\ loopMsg # NoMsg
    /\ loopMsg' = NoMsg
    /\ UNCHANGED <<inQ, outQ, pubIn, conIn, pubOut, conOut, sent, cronVars, nextVars, extVars>>

\* The message tool publishes outbound while the loop processes a message.
ToolPublishOutbound ==
    /\ loopMsg # NoMsg
    /\ Len(pubOut) < MaxMsgs
    /\ Len(outQ) < QueueCap
    /\ \E c \in Channels :
         LET m == [id |-> Len(pubOut) + 1, channel |-> c]
         IN  /\ outQ' = busPublish(outQ, m)
             /\ pubOut' = Append(pubOut, m)
    /\ UNCHANGED <<inQ, pubIn, conIn, conOut, loopMsg, sent, cronVars, nextVars, extVars>>

\* A dispatcher that hands every message to every registered channel.
dispatchOutbound_broadcast ==
    /\ outQ # <<>>
    /\ LET msg == busNext(outQ)
       IN  /\ conOut' = Append(conOut, msg)
           /\ sent' = sent \o <<SendCall("slack", msg), SendCall("discord", msg)>>
    /\ outQ' = busRest(outQ)
    /\ UNCHANGED <<inQ, pubIn, conIn, pubOut, loopMsg, cronVars, nextVars, extVars>>

\* A dispatcher that takes the newest queued message first.
dispatchOutbound_newestFirst ==
    /\ outQ # <<>>
    /\ LET msg == busNext_lifo(outQ)
       IN  /\ conOut' = Append(conOut, msg)
           /\ sent' = IF msg.channel \in DOMAIN ManagerChannels
                      THEN Append(sent, SendCall(ManagerChannels[msg.channel], msg))
                      ELSE sent
    /\ outQ' = busRest(outQ)
    /\ UNCHANGED <<inQ, pubIn, conIn, pubOut, loopMsg, cronVars, nextVars, extVars>>

\* Manager.dispatchOutbound: ConsumeOutbound, then Send on the named channel;
\* a message for a channel that is not registered is dropped.
dispatchOutbound ==
    /\ outQ # <<>>
    /\ LET msg == busNext(outQ)
       IN  /\ conOut' = Append(conOut, msg)
           /\ sent' = IF msg.channel \in DOMAIN ManagerChannels
                      THEN Append(sent, SendCall(ManagerChannels[msg.channel], msg))
                      ELSE sent
    /\ outQ' = busRest(outQ)
    /\ UNCHANGED <<inQ, pubIn, conIn, pubOut, loopMsg, cronVars, nextVars, extVars>>

InitReaders ==
    /\ otherIn = <<>>
    /\ otherOut = <<>>
    /\ canceled = FALSE

\* A second reader calls ConsumeInbound.
ReaderConsumeInbound ==
    /\ inQ # <<>>
    /\ otherIn' = Append(otherIn, busNext(inQ))
    /\ inQ' = busRest(inQ)
    /\ UNCHANGED <<outQ, pubIn, conIn, pubOut, conOut, loopMsg, sent,
                   otherOut, canceled, othersOfReaders>>

\* A second reader calls ConsumeOutbound.
ReaderConsumeOutbound ==
    /\ outQ # <<>>
    /\ otherOut' = Append(otherOut, busNext(outQ))
    /\ outQ' = busRest(outQ)
    /\ UNCHANGED <<inQ, pubIn, conIn, pubOut, conOut, loopMsg, sent,
                   otherIn, canceled, othersOfReaders>>

\* A publisher waits for space in a full queue until its context is cancelled:
\* Publish* fails with Canceled and the message is not queued.
PublishCanceled ==
    /\ Len(inQ) = QueueCap \/ Len(outQ) = QueueCap
    /\ canceled' = TRUE
    /\ UNCHANGED <<busVars, otherIn, otherOut, othersOfReaders>>

NextBus ==
    \/ PublishInbound
    \/ LoopConsume
    \/ LoopReply
    \/ LoopSilent
    \/ ToolPublishOutbound
    \/ dispatchOutbound

-----------------------------------------------------------------------------
(* Spec: cron.Service.                                                     *)
(*                                                                         *)
(* A Job keeps the fields the service reads or writes: id, enabled, sched  *)
(* (kind, atMS, everyMS, expr), nextRun, lastRun, lastStatus, lastError    *)
(* and deleteAfterRun.  Name, payload and the created/updated stamps are   *)
(* carried along by the code and never read by it; they are left out.      *)
(* Every locked section begins with loadLocked and every mutation ends     *)
(* with saveLocked, so s.store and cron.json agree whenever the mutex is   *)
(* free: `store` stands for both.  File-system errors are not modelled.    *)
(***************************************************************************)

\* Calls of the service's methods and advances of the clock in one run.
MaxCalls == 3

\* The instant `now` = 0: 2026-02-13 10:00 UTC.
BaseMin == Date(2026, 2, 13, 10, 0).min

MsPerMinute == 60 * 1000

\* The clock is read a minute after the instant BaseMin and advances a minute
\* at a time.
StartMS == MsPerMinute
TickMS  == MsPerMinute

\* time.UnixMilli(ms)
FromUnixMilli(ms) == [min |-> BaseMin + ms \div MsPerMinute, ms |-> ms % MsPerMinute]

\* t.UnixMilli().  The zero time lies some 62 * 10^12 ms before the epoch; the
\* model's clock holds it as its most negative value.
ToUnixMilli(t) ==
    IF t = ZeroTime THEN 0 - 2147483647
    ELSE (t.min - BaseMin) * MsPerMinute + t.ms

max64(a, b) == IF a > b THEN a ELSE b

AtSched(ms)    == [kind |-> "at",    atMS |-> ms, everyMS |-> 0,  expr |-> <<>>]
EverySched(ms) == [kind |-> "every", atMS |-> 0,  everyMS |-> ms, expr |-> <<>>]
CronSched(e)   == [kind |-> "cron",  atMS |-> 0,  everyMS |-> 0,  expr |-> e]
UnknownSched   == [kind |-> "unknown", atMS |-> 0, everyMS |-> 0, expr |-> <<>>]

\* A schedule computation that answers the present: every forgets its period,
\* cron does not step past the current minute.
computeNextRunMS_stuck(s, t) ==
    IF s.kind = "at" THEN (IF s.atMS > t THEN s.atMS ELSE 0)
    ELSE IF s.kind = "every" THEN (IF s.everyMS <= 0 THEN 0 ELSE t)
    ELSE IF s.kind = "cron" THEN
        (IF s.expr = <<>> \/ ~parseCron5(s.expr).ok THEN 0
         ELSE ToUnixMilli(Next_noStep(parseCron5(s.expr), FromUnixMilli(t))))
    ELSE 0

computeNextRunMS(s, t) ==
    IF s.kind = "at" THEN (IF s.atMS > t THEN s.atMS ELSE 0)
    ELSE IF s.kind = "every" THEN (IF s.everyMS <= 0 THEN 0 ELSE t + s.everyMS)
    ELSE IF s.kind = "cron" THEN
        (IF s.expr = <<>> THEN 0
         ELSE IF ~parseCron5(s.expr).ok THEN 0
         ELSE ToUnixMilli(Next(parseCron5(s.expr), FromUnixMilli(t))))
    ELSE 0

\* The error validateSchedule returns, "" for nil.
validateSchedule(s, t) ==
    IF s.kind = "at" THEN
        (IF s.atMS <= 0 THEN "at schedule requires a valid timestamp"
         ELSE IF s.atMS <= t THEN "at schedule must be in the future"
         ELSE "")
    ELSE IF s.kind = "every" THEN
        (IF s.everyMS <= 0 THEN "every schedule requires everyMs > 0" ELSE "")
    ELSE IF s.kind = "cron" THEN
        (IF s.expr = <<>> THEN "cron schedule requires expr"
         ELSE IF ~parseCron5(s.expr).ok THEN "invalid cron expression"
         ELSE "")
    ELSE "unknown schedule kind"

NewJob(id, sched, nextRun) ==
    [id |-> id, enabled |-> TRUE, sched |-> sched, nextRun |-> nextRun,
     lastRun |-> 0, lastStatus |-> "", lastError |-> "", deleteAfterRun |-> FALSE]

\* Index of the first job with this id, 0 when there is none.
IndexOf(st, id) ==
    IF \E i \in 1..Len(st) : st[i].id = id
    THEN CHOOSE i \in 1..Len(st) : st[i].id = id /\ \A k \in 1..(i - 1) : st[k].id # id
    ELSE 0

RemoveAt(st, i) == SubSeq(st, 1, i - 1) \o SubSeq(st, i + 1, Len(st))

recomputeNextRunsLocked(st, t) ==
    [i \in 1..Len(st) |->
        IF ~st[i].enabled THEN [st[i] EXCEPT !.nextRun = 0]
        ELSE [st[i] EXCEPT !.nextRun = computeNextRunMS(st[i].sched, t)]]

RECURSIVE nextWakeFrom(_, _, _)
nextWakeFrom(st, i, best) ==
    IF i > Len(st) THEN best
    ELSE IF ~st[i].enabled \/ st[i].nextRun <= 0 THEN nextWakeFrom(st, i + 1, best)
    ELSE IF best = 0 \/ st[i].nextRun < best THEN nextWakeFrom(st, i + 1, st[i].nextRun)
    ELSE nextWakeFrom(st, i + 1, best)

nextWakeMSLocked(st) == nextWakeFrom(st, 1, 0)

\* The timer after armLocked: its fire time, or the timer as it was when
\* armLocked returns early.
armLocked(st, isRunning, tm, t) ==
    IF ~isRunning THEN tm
    ELSE IF nextWakeMSLocked(st) <= 0 THEN tm
    ELSE t + max64(0, nextWakeMSLocked(st) - t)

\* The locked part of execute: the store after the run of job id that began at
\* start and whose handler returned err ("" for nil), written at time updated.
executeUpdate_keepsAt(st, id, start, err, updated) ==
    LET i == IndexOf(st, id)
    IN  IF i = 0 THEN st
        ELSE [st EXCEPT ![i] =
                [@ EXCEPT !.lastRun = start,
                          !.lastStatus = IF err # "" THEN "error" ELSE "ok",
                          !.lastError = err,
                          !.nextRun = computeNextRunMS(st[i].sched, updated)]]

\* An execute that disables a job whose handler failed.
executeUpdate_errorDisables(st, id, start, err, updated) ==
    LET i == IndexOf(st, id)
        j == [st[i] EXCEPT !.lastRun = start,
                           !.lastStatus = IF err # "" THEN "error" ELSE "ok",
                           !.lastError = err,
                           !.enabled = IF err # "" THEN FALSE ELSE st[i].enabled]
    IN  IF i = 0 THEN st
        ELSE IF j.sched.kind = "at" THEN
            (IF j.deleteAfterRun THEN RemoveAt(st, i)
             ELSE [st EXCEPT ![i] = [j EXCEPT !.enabled = FALSE, !.nextRun = 0]])
        ELSE [st EXCEPT ![i] = [j EXCEPT !.nextRun = computeNextRunMS(j.sched, updated)]]

executeUpdate(st, id, start, err, updated) ==
    LET i == IndexOf(st, id)
        j == [st[i] EXCEPT !.lastRun = start,
                           !.lastStatus = IF err # "" THEN "error" ELSE "ok",
                           !.lastError = err]
    IN  IF i = 0 THEN st
        ELSE IF j.sched.kind = "at" THEN
            (IF j.deleteAfterRun THEN RemoveAt(st, i)
             ELSE [st EXCEPT ![i] = [j EXCEPT !.enabled = FALSE, !.nextRun = 0]])
        ELSE [st EXCEPT ![i] = [j EXCEPT !.nextRun = computeNextRunMS(j.sched, updated)]]

\* The errors the injected OnJob handler may return.
HandlerErrors == {"", "boom"}

\* The ids callers pass: those handed out so far (StoredJob has 0) and one
\* that names no job.
JobIds == 0..nextId

\* What callers pass to Add.
AddScheds ==
    { AtSched(StartMS), AtSched(StartMS + TickMS),
      EverySched(0), EverySched(TickMS),
      CronSched(ExprEveryMinute), CronSched(ExprNotACron), CronSched(ExprFeb30),
      UnknownSched }

\* A job left in cron.json by an earlier run: a one-shot that is to be deleted
\* once it has run.
StoredJob ==
    [id |-> 0, enabled |-> TRUE, sched |-> AtSched(StartMS + TickMS),
     nextRun |-> StartMS + TickMS,
     lastRun |-> 0, lastStatus |-> "", lastError |-> "", deleteAfterRun |-> TRUE]

\* A one-shot added through Add by an earlier run: Add leaves deleteAfterRun
\* false.
StoredReminder == [StoredJob EXCEPT !.deleteAfterRun = FALSE]

IdleSweep == [pc |-> "idle", due |-> <<>>, i |-> 0, start |-> 0]
IdleRun   == [pc |-> "idle", id |-> 0, start |-> 0]
NoRet     == [op |-> "", err |-> ""]

InitCron ==
    /\ store \in {<<>>, <<StoredJob>>, <<StoredReminder>>}
    /\ running = FALSE
    /\ timer = 0
    /\ now = StartMS
    /\ calls = 0
    /\ nextId = 1
    /\ sweep = IdleSweep
    /\ rn = IdleRun
    /\ ret = NoRet

\* A caller may call the service, or the clock may advance.
Callable == calls < MaxCalls /\ ret = NoRet

\* The caller takes what Add or RunNow returned.
Return ==
    /\ ret # NoRet
    /\ ret' = NoRet
    /\ UNCHANGED <<store, running, timer, now, calls, nextId, sweep, rn, nextVars, busVars, extVars>>

\* The clock advances.
Tick ==
    /\ Callable
    /\ now' = now + TickMS
    /\ calls' = calls + 1
    /\ UNCHANGED <<store, running, timer, nextId, sweep, rn, ret, nextVars, busVars, extVars>>

Start ==
    /\ Callable
    /\ calls' = calls + 1
    /\ IF running
       THEN UNCHANGED <<store, running, timer>>
       ELSE /\ store' = recomputeNextRunsLocked(store, now)
            /\ running' = TRUE
            /\ timer' = armLocked(store', TRUE, timer, now)
    /\ UNCHANGED <<now, nextId, sweep, rn, ret, nextVars, busVars, extVars>>

Stop ==
    /\ Callable
    /\ calls' = calls + 1
    /\ running' = FALSE
    /\ timer' = 0
    /\ UNCHANGED <<store, now, nextId, sweep, rn, ret, nextVars, busVars, extVars>>

\* An Add that appends and saves the job before it looks at the schedule.
Add_savesFirst(sched) ==
    /\ Callable
    /\ calls' = calls + 1
    /\ store' = Append(store, NewJob(nextId, sched, computeNextRunMS(sched, now)))
    /\ nextId' = nextId + 1
    /\ ret' = [op |-> "Add", err |-> validateSchedule(sched, now)]
    /\ UNCHANGED <<running, timer, now, sweep, rn, nextVars, busVars, extVars>>

Add(sched) ==
    /\ Callable
    /\ calls' = calls + 1
    /\ LET err     == validateSchedule(sched, now)
           nextRun == computeNextRunMS(sched, now)
       IN  IF err # ""
           THEN /\ ret' = [op |-> "Add", err |-> err]
                /\ UNCHANGED <<store, nextId>>
           ELSE IF nextRun <= 0
           THEN /\ ret' = [op |-> "Add", err |-> "failed to compute next run"]
                /\ UNCHANGED <<store, nextId>>
           ELSE /\ store' = Append(store, NewJob(nextId, sched, nextRun))
                /\ nextId' = nextId + 1
                /\ ret' = [op |-> "Add", err |-> ""]
    /\ UNCHANGED <<running, timer, now, sweep, rn, nextVars, busVars, extVars>>

Remove(id) ==
    /\ Callable
    /\ calls' = calls + 1
    /\ store' = SelectSeq(store, LAMBDA j : j.id # id)
    /\ UNCHANGED <<running, timer, now, nextId, sweep, rn, ret, nextVars, busVars, extVars>>

Toggle(id, disable) ==
    /\ Callable
    /\ calls' = calls + 1
    /\ LET i == IndexOf(store, id)
       IN  IF i = 0
           THEN UNCHANGED store
           ELSE    store' = [store EXCEPT ![i] =
                     [@ EXCEPT !.enabled = ~disable,
                               !.nextRun = IF ~disable
                                           THEN computeNextRunMS(store[i].sched, now)
                                           ELSE 0]]
    /\ UNCHANGED <<running, timer, now, nextId, sweep, rn, ret, nextVars, busVars, extVars>>

\* A RunNow that runs whatever job it finds.
RunNow_anyJob(id, force) ==
    /\ Callable
    /\ calls' = calls + 1
    /\ rn.pc = "idle"
    /\ IF IndexOf(store, id) = 0
       THEN /\ ret' = [op |-> "RunNow", err |-> "job not found"]
            /\ UNCHANGED rn
       ELSE /\ rn' = [pc |-> "handler", id |-> id, start |-> now]
            /\ UNCHANGED ret
    /\ UNCHANGED <<store, running, timer, now, nextId, sweep, nextVars, busVars, extVars>>

\* RunNow up to the call of the handler: the lookup under the mutex, the two
\* early returns, and the start of execute.
RunNow(id, force) ==
    /\ Callable
    /\ calls' = calls + 1
    /\ rn.pc = "idle"
    /\ LET i == IndexOf(store, id)
       IN  IF i = 0
           THEN /\ ret' = [op |-> "RunNow", err |-> "job not found"]
                /\ UNCHANGED rn
           ELSE IF ~store[i].enabled /\ ~force
           THEN /\ ret' = [op |-> "RunNow", err |-> "job disabled"]
                /\ UNCHANGED rn
           ELSE /\ rn' = [pc |-> "handler", id |-> id, start |-> now]
                /\ UNCHANGED ret
    /\ UNCHANGED <<store, running, timer, now, nextId, sweep, nextVars, busVars, extVars>>

\* The handler returns err and execute records the run under the mutex.
RunNowReturns(err) ==
    /\ ret = NoRet
    /\ rn.pc = "handler"
    /\ store' = executeUpdate(store, rn.id, rn.start, err, now)
    /\ ret' = [op |-> "RunNow", err |-> err]
    /\ rn' = IdleRun
    /\ UNCHANGED <<running, timer, now, calls, nextId, sweep, nextVars, busVars, extVars>>

RunNowDone == \E err \in HandlerErrors : RunNowReturns(err)

\* The ids of the jobs onTimer finds due at time t, in store order.
RECURSIVE dueFrom(_, _, _)
dueFrom(st, i, t) ==
    IF i > Len(st) THEN <<>>
    ELSE IF ~st[i].enabled \/ st[i].nextRun <= 0 THEN dueFrom(st, i + 1, t)
    ELSE IF t >= st[i].nextRun THEN <<st[i].id>> \o dueFrom(st, i + 1, t)
    ELSE dueFrom(st, i + 1, t)

\* The timer fires: onTimer collects the due jobs under the mutex.
onTimer ==
    /\ ret = NoRet
    /\ timer # 0
    /\ now >= timer
    /\ sweep.pc = "idle"
    /\ timer' = 0
    /\ sweep' = IF ~running THEN IdleSweep
                ELSE [pc |-> "exec", due |-> dueFrom(store, 1, now), i |-> 1, start |-> 0]
    /\ UNCHANGED <<store, running, now, calls, nextId, rn, ret, nextVars, busVars, extVars>>

\* onTimer calls execute for the next due job: the handler is invoked.
SweepExecute ==
    /\ ret = NoRet
    /\ sweep.pc = "exec"
    /\ sweep.i <= Len(sweep.due)
    /\ sweep' = [sweep EXCEPT !.pc = "handler", !.start = now]
    /\ UNCHANGED <<store, running, timer, now, calls, nextId, rn, ret, nextVars, busVars, extVars>>

\* The handler returns err and execute records the run under the mutex.
SweepReturns(err) ==
    /\ ret = NoRet
    /\ sweep.pc = "handler"
    /\ store' = executeUpdate(store, sweep.due[sweep.i], sweep.start, err, now)
    /\ sweep' = [sweep EXCEPT !.pc = "exec", !.i = @ + 1, !.start = 0]
    /\ UNCHANGED <<running, timer, now, calls, nextId, rn, ret, nextVars, busVars, extVars>>

SweepExecuteDone == \E err \in HandlerErrors : SweepReturns(err)

\* onTimer, after the due jobs: recompute, save and re-arm.
SweepFinish ==
    /\ ret = NoRet
    /\ sweep.pc = "exec"
    /\ sweep.i > Len(sweep.due)
    /\ store' = recomputeNextRunsLocked(store, now)
    /\ timer' = armLocked(store', running, timer, now)
    /\ sweep' = IdleSweep
    /\ UNCHANGED <<running, now, calls, nextId, rn, ret, nextVars, busVars, extVars>>

NextCron ==
    \/ Return
    \/ Tick
    \/ Start
    \/ Stop
    \/ \E s \in AddScheds : Add(s)
    \/ \E id \in JobIds : Remove(id)
    \/ \E id \in JobIds, disable \in BOOLEAN : Toggle(id, disable)
    \/ \E id \in JobIds, force \in BOOLEAN : RunNow(id, force)
    \/ RunNowDone
    \/ onTimer
    \/ SweepExecute
    \/ SweepExecuteDone
    \/ SweepFinish

\* The service left running with repeating jobs in its store.  The clock counts
\* MaxMinutes minutes.
MaxMinutes == 8
Horizon == StartMS + MaxMinutes * TickMS

ShortPeriod == TickMS
LongPeriod  == 2 * TickMS

\* cron.json as Add left it at the instant 0: a job for every minute and a job
\* for every second minute, in either order.
RepeatingStores ==
    { <<NewJob(0, EverySched(ShortPeriod), ShortPeriod),
        NewJob(1, EverySched(LongPeriod), LongPeriod)>>,
      <<NewJob(0, EverySched(LongPeriod), LongPeriod),
        NewJob(1, EverySched(ShortPeriod), ShortPeriod)>> }

\* The service as Start leaves it at StartMS: the next runs recomputed, the timer
\* armed.
InitRepeating ==
    /\ store \in { recomputeNextRunsLocked(st, StartMS) : st \in RepeatingStores }
    /\ running = TRUE
    /\ timer = armLocked(store, TRUE, 0, StartMS)
    /\ now = StartMS
    /\ calls = 0
    /\ nextId = 2
    /\ sweep = IdleSweep
    /\ rn = IdleRun
    /\ ret = NoRet

\* A time a minute earlier; 0 is no time.
Earlier(t) == IF t = 0 THEN 0 ELSE t - TickMS

\* Time passes, by a minute, while the service waits for its timer or a handler
\* is at work, for a minute at most: a timer that is due fires, and onTimer gets
\* through its locked sections, before the minute is over.  The service only
\* compares times and adds periods to `now`; from the Horizon on the minute
\* passes by moving the origin of the clock, so that every time in the state is
\* a minute less.
Elapse ==
    /\ sweep.pc = "idle" \/ (sweep.pc = "handler" /\ sweep.start = now)
    /\ ~(sweep.pc = "idle" /\ timer # 0 /\ now >= timer)
    /\ IF now < Horizon
       THEN /\ now' = now + TickMS
            /\ UNCHANGED <<store, timer, sweep>>
       ELSE /\ now' = now
            /\ store' = [i \in 1..Len(store) |->
                            [store[i] EXCEPT !.nextRun = Earlier(@), !.lastRun = Earlier(@),
                                             !.sched.atMS = Earlier(@)]]
            /\ timer' = Earlier(timer)
            /\ sweep' = [sweep EXCEPT !.start = Earlier(@)]
    /\ UNCHANGED <<running, calls, nextId, rn, ret, nextVars, busVars, extVars>>

\* The handlers return nil.
NextRepeating ==
    \/ Elapse
    \/ onTimer
    \/ SweepExecute
    \/ SweepReturns("")
    \/ SweepFinish

\* The timer callbacks side by side.  armLocked stops the timer it finds and
\* starts another, but a callback that has begun goes on: when Start arms a
\* timer while an onTimer of an earlier timer has not returned, and that timer
\* fires, the two callbacks run in two goroutines.  `sweep2` is the later one.

\* The minutes that pass while callers and callbacks are at work.
MaxWaits == 2

Wait ==
    /\ now < StartMS + MaxWaits * TickMS
    /\ now' = now + TickMS
    /\ UNCHANGED <<store, running, timer, calls, nextId, sweep, rn, ret, nextVars, busVars, extVars>>

\* The timer fires while an earlier onTimer has not returned: the callback
\* collects the due jobs under the mutex.
onTimerAgain ==
    /\ timer # 0
    /\ now >= timer
    /\ sweep.pc # "idle"
    /\ sweep2.pc = "idle"
    /\ timer' = 0
    /\ sweep2' = IF ~running THEN IdleSweep
                 ELSE [pc |-> "exec", due |-> dueFrom(store, 1, now), i |-> 1, start |-> 0]
    /\ UNCHANGED <<store, running, now, calls, nextId, sweep, rn, ret, besideOverlap>>

\* It calls execute for its next due job: the handler is invoked.
AgainExecute ==
    /\ sweep2.pc = "exec"
    /\ sweep2.i <= Len(sweep2.due)
    /\ sweep2' = [sweep2 EXCEPT !.pc = "handler", !.start = now]
    /\ UNCHANGED <<cronVars, besideOverlap>>

\* The handler returns nil and execute records the run under the mutex.
AgainReturns ==
    /\ sweep2.pc = "handler"
    /\ store' = executeUpdate(store, sweep2.due[sweep2.i], sweep2.start, "", now)
    /\ sweep2' = [sweep2 EXCEPT !.pc = "exec", !.i = @ + 1, !.start = 0]
    /\ UNCHANGED <<running, timer, now, calls, nextId, sweep, rn, ret, besideOverlap>>

\* After its due jobs: recompute, save and re-arm.
AgainFinish ==
    /\ sweep2.pc = "exec"
    /\ sweep2.i > Len(sweep2.due)
    /\ store' = recomputeNextRunsLocked(store, now)
    /\ timer' = armLocked(store', running, timer, now)
    /\ sweep2' = IdleSweep
    /\ UNCHANGED <<running, now, calls, nextId, sweep, rn, ret, besideOverlap>>

\* The running service with its callers Stop, Start and Remove.
NextSweeps ==
    \/ Wait
    \/ Stop
    \/ Start
    \/ \E id \in 0..1 : Remove(id)
    \/ onTimer
    \/ SweepExecute
    \/ SweepReturns("")
    \/ SweepFinish
    \/ onTimerAgain
    \/ AgainExecute
    \/ AgainReturns
    \/ AgainFinish

\* The times of the reminders.
AtTimes == {StartMS + TickMS, StartMS + 2 * TickMS}

\* cron.json as Add left it at the instant 0: a reminder (an `at` job; Add leaves
\* delete_after_run false), alone or with a job for every minute before or
\* after it.
ReminderStores ==
    UNION { { <<NewJob(0, AtSched(at), at)>>,
              <<NewJob(0, EverySched(ShortPeriod), ShortPeriod), NewJob(1, AtSched(at), at)>>,
              <<NewJob(0, AtSched(at), at), NewJob(1, EverySched(ShortPeriod), ShortPeriod)>> }
            : at \in AtTimes }

\* The service as Start leaves it at StartMS with a reminder in its store.
InitReminders ==
    /\ store \in { recomputeNextRunsLocked(st, StartMS) : st \in ReminderStores }
    /\ running = TRUE
    /\ timer = armLocked(store, TRUE, 0, StartMS)
    /\ now = StartMS
    /\ calls = 0
    /\ nextId = 2
    /\ sweep = IdleSweep
    /\ rn = IdleRun
    /\ ret = NoRet

-----------------------------------------------------------------------------
(* channels.Manager and the adapters' Start, Stop and Send.                *)

Adapters == {"slack", "discord", "whatsapp"}

\* The most Send calls of one behaviour.
MaxSends == 2

\* Where a Start goroutine is:
\*   idle      Start has not been called;
\*   spawned   `go ch.Start(ctx)` has run, Start has not yet got to its client;
\*   client    the client handle is stored, running is still false;
\*   running   running.Store(true) is done, Start blocks until ctx is done or
\*             the connection ends;
\*   returned  Start has returned.
StartPcs == {"idle", "spawned", "client", "running", "returned"}

NoSend == [on |-> "none"]

\* The outbound messages handed to Send: with and without a chat id and text.
SendInputs ==
    { [chat |-> "c1", content |-> "hi"],
      [chat |-> "c1", content |-> ""],
      [chat |-> "",   content |-> "hi"] }

\* What the transport call of a connected client returns.
TransportResults == {"posted", "transport error"}

InitChan ==
    /\ mgrRunning = FALSE
    /\ stopOnce = FALSE
    /\ dispatcherUp = FALSE
    /\ startAllRet = FALSE
    /\ cfgOk \in [Adapters -> BOOLEAN]
    /\ chPc = [a \in Adapters |-> "idle"]
    /\ chRunning = [a \in Adapters |-> FALSE]
    /\ chClient = [a \in Adapters |-> FALSE]
    /\ delivered = 0
    /\ sendCalls = 0
    /\ lastSend = NoSend

\* The channels as the other specifications hold them.
IdleChan == InitChan /\ cfgOk = [a \in Adapters |-> TRUE]

\* The order in which a StartAll that ran the Starts itself would take them.
StartOrder == <<"slack", "discord", "whatsapp">>

\* A StartAll that calls each Start itself and gives up at the first one that
\* fails: the channels after it are never started.
StartAll_inline ==
    /\ ~stopOnce
    /\ startAllRet' = TRUE
    /\ IF mgrRunning
       THEN UNCHANGED <<mgrRunning, dispatcherUp, chPc>>
       ELSE /\ mgrRunning' = TRUE
            /\ dispatcherUp' = TRUE
            /\ chPc' = [a \in Adapters |->
                          IF \A i \in 1..3 :
                               (\E j \in i..3 : StartOrder[j] = a) \/ cfgOk[StartOrder[i]]
                          THEN "spawned" ELSE "idle"]
    /\ UNCHANGED <<stopOnce, cfgOk, chRunning, chClient, delivered, sendCalls,
                   lastSend, othersOfChan>>

\* Manager.StartAll: a no-op when already running; otherwise the dispatcher
\* and one goroutine per registered channel are started, and nil is returned
\* without waiting for any of them.  (The gateway does not call StartAll after
\* StopAll.)
StartAll ==
    /\ ~stopOnce
    /\ startAllRet' = TRUE
    /\ IF mgrRunning
       THEN UNCHANGED <<mgrRunning, dispatcherUp, chPc>>
       ELSE /\ mgrRunning' = TRUE
            /\ dispatcherUp' = TRUE
            /\ chPc' = [a \in Adapters |-> "spawned"]
    /\ UNCHANGED <<stopOnce, cfgOk, chRunning, chClient, delivered, sendCalls,
                   lastSend, othersOfChan>>

\* Channel.Start returns early: an empty token (slack, discord) or no
\* session store (whatsapp).
StartFailsEarly(a) ==
    /\ chPc[a] = "spawned"
    /\ ~cfgOk[a]
    /\ chPc' = [chPc EXCEPT ![a] = "returned"]
    /\ UNCHANGED <<mgrRunning, stopOnce, dispatcherUp, startAllRet, cfgOk, chRunning,
                   chClient, delivered, sendCalls, lastSend, othersOfChan>>

\* Channel.Start stores its client handle: c.api, c.dg, c.wa.
StartStoresClient(a) ==
    /\ chPc[a] = "spawned"
    /\ cfgOk[a]
    /\ chClient' = [chClient EXCEPT ![a] = TRUE]
    /\ chPc' = [chPc EXCEPT ![a] = "client"]
    /\ UNCHANGED <<mgrRunning, stopOnce, dispatcherUp, startAllRet, cfgOk, chRunning,
                   delivered, sendCalls, lastSend, othersOfChan>>

\* Channel.Start: running.Store(true).
StartSetsRunning(a) ==
    /\ chPc[a] = "client"
    /\ chRunning' = [chRunning EXCEPT ![a] = TRUE]
    /\ chPc' = [chPc EXCEPT ![a] = "running"]
    /\ UNCHANGED <<mgrRunning, stopOnce, dispatcherUp, startAllRet, cfgOk, chClient,
                   delivered, sendCalls, lastSend, othersOfChan>>

\* Channel.Start returns: the connection failed or ended, or ctx is done.
\* whatsapp connects before it sets running, slack and discord after.  The
\* deferred calls clear running, and c.dg or c.wa; slack keeps c.api.
StartReturns(a) ==
    /\ chPc[a] = "running" \/ (a = "whatsapp" /\ chPc[a] = "client")
    /\ chRunning' = [chRunning EXCEPT ![a] = FALSE]
    /\ chClient' = [chClient EXCEPT ![a] = IF a = "slack" THEN @ ELSE FALSE]
    /\ chPc' = [chPc EXCEPT ![a] = "returned"]
    /\ UNCHANGED <<mgrRunning, stopOnce, dispatcherUp, startAllRet, cfgOk,
                   delivered, sendCalls, lastSend, othersOfChan>>

\* Manager.StopAll, once: Stop on every channel.  slack clears running and
\* cancels its run context; discord and whatsapp take the client handle away.
\* The dispatcher goes on until its own context is done.
StopAll ==
    /\ ~stopOnce
    /\ stopOnce' = TRUE
    /\ mgrRunning' = FALSE
    /\ chRunning' = [chRunning EXCEPT !["slack"] = FALSE]
    /\ chClient' = [a \in Adapters |-> IF a = "slack" THEN chClient[a] ELSE FALSE]
    /\ UNCHANGED <<dispatcherUp, startAllRet, cfgOk, chPc, delivered, sendCalls,
                   lastSend, othersOfChan>>

\* Channel.Send of the three adapters, as the error it returns ("nil": none,
\* nothing posted; "posted": none, the transport took the message).
\*   slack     empty token; empty chat id; empty text -> nil; then it posts,
\*             with c.api or with a client it makes on the spot.
\*   discord   empty chat id; empty text -> nil; c.dg == nil -> not connected.
\*   whatsapp  unparsable chat id; empty text -> nil; c.wa == nil -> not connected.
SendResult(a, in, transport) ==
    IF a = "slack" /\ ~cfgOk[a] THEN "token is empty"
    ELSE IF in.chat = "" THEN "chat_id is empty"
    ELSE IF in.content = "" THEN "nil"
    ELSE IF a # "slack" /\ ~chClient[a] THEN "not connected"
    ELSE transport

\* Manager.dispatchOutbound with a message for the registered channel a:
\* `_ = ch.Send(ctx, msg)`, once, whatever it returns.
dispatchSend(a, in, transport) ==
    /\ dispatcherUp
    /\ delivered < MaxSends
    /\ delivered' = delivered + 1
    /\ sendCalls' = sendCalls + 1
    /\ lastSend' = [on |-> a, running |-> chRunning[a], client |-> chClient[a],
                    in |-> in, result |-> SendResult(a, in, transport)]
    /\ chClient' = IF a = "slack" /\ SendResult(a, in, transport) \in TransportResults
                   THEN [chClient EXCEPT ![a] = TRUE]
                   ELSE chClient
    /\ UNCHANGED <<mgrRunning, stopOnce, dispatcherUp, startAllRet, cfgOk, chPc,
                   chRunning, othersOfChan>>

NextChan ==
    \/ StartAll
    \/ StopAll
    \/ \E a \in Adapters : StartFailsEarly(a)
    \/ \E a \in Adapters : StartStoresClient(a)
    \/ \E a \in Adapters : StartSetsRunning(a)
    \/ \E a \in Adapters : StartReturns(a)
    \/ \E a \in Adapters, in \in SendInputs, transport \in TransportResults :
         dispatchSend(a, in, transport)

-----------------------------------------------------------------------------
(* channels.AllowList and the inbound handlers of the adapters.            *)
(* A Go string is a sequence of one-character strings.                     *)

\* The longest sender id a transport event carries.
MaxIdLen == 3

Chars == {"a", "b", " ", "|"}

Strs(n) == UNION {[1..k -> Chars] : k \in 0..n}

\* strings.TrimLeft(s, " ") and strings.TrimRight(s, " ").
RECURSIVE TrimLeft(_)
TrimLeft(s) == IF s # <<>> /\ Head(s) = " " THEN TrimLeft(Tail(s)) ELSE s

RECURSIVE TrimRight(_)
TrimRight(s) ==
    IF s # <<>> /\ s[Len(s)] = " " THEN TrimRight(SubSeq(s, 1, Len(s) - 1)) ELSE s

\* strings.TrimSpace.
TrimSpace(s) == TrimRight(TrimLeft(s))

\* slices.Contains.
Contains(list, v) == \E i \in 1..Len(list) : list[i] = v

\* strings.SplitSeq(s, "|"): the parts of s between the separators, in order;
\* `part` is the part under way.
RECURSIVE SplitFrom(_, _)
SplitFrom(s, part) ==
    IF s = <<>> THEN <<part>>
    ELSE IF Head(s) = "|" THEN <<part>> \o SplitFrom(Tail(s), <<>>)
    ELSE SplitFrom(Tail(s), Append(part, Head(s)))

SplitSeq(s) == SplitFrom(s, <<>>)

\* An Allowed that knows no compound ids.
Allowed_noSplit(list, senderID) ==
    \/ list = <<>>
    \/ TrimSpace(senderID) # <<>> /\ Contains(list, TrimSpace(senderID))

\* AllowList.Allowed.
Allowed(list, senderID) ==
    IF Len(list) = 0 THEN TRUE
    ELSE LET id == TrimSpace(senderID)
         IN  IF id = <<>> THEN FALSE
             ELSE IF Contains(list, id) THEN TRUE
             ELSE IF Contains(id, "|")
                  THEN \E i \in 1..Len(SplitSeq(id)) :
                         /\ TrimSpace(SplitSeq(id)[i]) # <<>>
                         /\ Contains(list, TrimSpace(SplitSeq(id)[i]))
                  ELSE FALSE

\* The allow lists of the configurations considered: none, one id, two ids,
\* an entry written with a leading blank, a compound entry.
AllowLists ==
    { <<>>,
      << <<"a">> >>,
      << <<"a">>, <<"b">> >>,
      << <<" ", "a">> >>,
      << <<"a", "|", "b">> >> }

NoEvent == [adapter |-> "none"]

\* An event as its handler has dealt with it (the handlers run one at a time
\* here: they share nothing but the allow list, which none of them changes): the sender id the handler gave
\* to Allowed, what Allowed returned, whether the handler published an inbound
\* message and whether it reacted on the transport.
Handled(adapter, sender, published, reacted) ==
    [adapter |-> adapter, sender |-> sender, allowed |-> Allowed(allowFrom, sender),
     published |-> published, reacted |-> reacted]

\* Message texts: none, blank, some.
Texts == {<<>>, <<" ">>, <<"a">>}

InitAllow ==
    /\ allowFrom \in AllowLists
    /\ ev = NoEvent

\* The allow list as the other specifications hold it.
IdleAllow == InitAllow /\ allowFrom = <<>>

\* discord Channel.onMessageCreate with author id `author`.
onMessageCreate(author, bot, chID, content) ==
    /\ ev = NoEvent
    /\ ev' = Handled("discord", author,
                     /\ ~bot
                     /\ Allowed(allowFrom, author)
                     /\ TrimSpace(chID) # <<>>
                     /\ TrimSpace(content) # <<>>,
                     FALSE)
    /\ UNCHANGED <<allowFrom, othersOfAllow>>

\* A slack handler that puts its :eyes: reaction on every message it sees.
publishInbound_reactsFirst(user, ch, text, policyOk, ts, api) ==
    /\ ev = NoEvent
    /\ ev' = Handled("slack", TrimSpace(user),
                     /\ TrimSpace(user) # <<>> /\ TrimSpace(ch) # <<>> /\ TrimSpace(text) # <<>>
                     /\ Allowed(allowFrom, TrimSpace(user))
                     /\ policyOk,
                     TrimSpace(ts) # <<>> /\ api)
    /\ UNCHANGED <<allowFrom, othersOfAllow>>

\* slack Channel.publishInbound for user id `user`; policyOk: allowedByPolicy
\* lets the message through and it has text besides the bot mention; api: c.api
\* is set.
publishInbound(user, ch, text, policyOk, ts, api) ==
    /\ ev = NoEvent
    /\ LET passes == /\ TrimSpace(user) # <<>> /\ TrimSpace(ch) # <<>>
                     /\ TrimSpace(text) # <<>>
                     /\ Allowed(allowFrom, TrimSpace(user))
                     /\ policyOk
       IN  ev' = Handled("slack", TrimSpace(user), passes,
                         passes /\ TrimSpace(ts) # <<>> /\ api)
    /\ UNCHANGED <<allowFrom, othersOfAllow>>

\* whatsapp appendUniqueTrimmed.
appendUniqueTrimmed(parts, v) ==
    IF TrimSpace(v) = <<>> THEN parts
    ELSE IF Contains(parts, TrimSpace(v)) THEN parts
    ELSE Append(parts, TrimSpace(v))

\* strings.Join(parts, "|").
RECURSIVE Join(_)
Join(parts) ==
    IF parts = <<>> THEN <<>>
    ELSE IF Len(parts) = 1 THEN parts[1]
    ELSE parts[1] \o <<"|">> \o Join(Tail(parts))

\* whatsappSenderID.
whatsappSenderID(user, nonAD, alt) ==
    Join(appendUniqueTrimmed(appendUniqueTrimmed(appendUniqueTrimmed(<<>>, user), nonAD), alt))

\* The ids a whatsapp event carries for its sender.
WaIds == {<<>>, <<"a">>, <<"b">>, <<"b", " ">>}

\* whatsapp Channel.handleIncomingMessage.
handleIncomingMessage(user, nonAD, alt, fromMe, content) ==
    /\ ev = NoEvent
    /\ ~fromMe
    /\ ev' = Handled("whatsapp", whatsappSenderID(user, nonAD, alt),
                     /\ Allowed(allowFrom, whatsappSenderID(user, nonAD, alt))
                     /\ content # <<>>,
                     FALSE)
    /\ UNCHANGED <<allowFrom, othersOfAllow>>

\* The handler has returned; the adapter waits for the next event.
handlerReturns ==
    /\ ev # NoEvent
    /\ ev' = NoEvent
    /\ UNCHANGED <<allowFrom, othersOfAllow>>

NextAllow ==
    \/ handlerReturns
    \/ \E author \in Strs(MaxIdLen), bot \in BOOLEAN, chID \in Texts, content \in Texts :
         onMessageCreate(author, bot, chID, content)
    \/ \E user \in Strs(MaxIdLen), ch \in Texts, text \in Texts, policyOk \in BOOLEAN,
          ts \in Texts, api \in BOOLEAN :
         publishInbound(user, ch, text, policyOk, ts, api)
    \/ \E user \in WaIds, nonAD \in WaIds, alt \in WaIds, fromMe \in BOOLEAN,
          content \in Texts :
         handleIncomingMessage(user, nonAD, alt, fromMe, content)

-----------------------------------------------------------------------------
(* The agent: Loop.Run with processInbound and processDirect (gateway),    *)
(* Agent.Process (command line) and SubagentManager.runSubagent.  One loop *)
(* runs at a time.  The session package and maybeConsolidateSession are    *)
(* not among the sources: Add appends one message, Save stores the         *)
(* session, and consolidation is left out.                                 *)

\* The most turns and subagent runs of one behaviour.
MaxTurns == 2

\* NewLoop, agent.New: opts.MaxIters <= 0 stands for 20.
DefaultMaxIters == 20

\* runSubagent: const maxIters.
SubagentMaxIters == 15

\* opts.MaxIters as given on the command line.
MaxItersOpts == {0, 1, 2}

NewLoopMaxIters(opt) == IF opt <= 0 THEN DefaultMaxIters ELSE opt

\* res.Content of a model response: none, blank, two texts.
ModelTexts == {"", " ", "t1", "t2"}

\* strings.TrimSpace(s) == "" for these contents.
IsBlank(text) == text \in {"", " "}

NoResponse == "(no response)"

\* Chat ids are sequences of pieces, so that strings.Cut can look for ":".
\* The inbound messages of the gateway: one from a chat, and the announcement
\* of a subagent that was spawned from that chat.
\* A session key, channel + ":" + chatID, as a sequence of pieces.
Key(channel, chat) == <<channel, ":">> \o chat

\* The adapters set SessionKey to "<channel>:" + chatID (slack.go, discord,
\* whatsapp.go, and the cron handler of the gateway); Spawn leaves it empty.
GatewayInbound ==
    { [channel |-> "slack",  chat |-> <<"c1">>, sessionKey |-> Key("slack", <<"c1">>)],
      [channel |-> "system", chat |-> <<"slack", ":", "c1">>, sessionKey |-> <<>>] }

NoInbound == [channel |-> "", chat |-> <<>>, sessionKey |-> <<>>]

\* strings.Cut(chatID, ":"): the index of the first ":", 0 when there is none.
RECURSIVE CutAt(_, _)
CutAt(chatID, i) ==
    IF i > Len(chatID) THEN 0
    ELSE IF chatID[i] = ":" THEN i
    ELSE CutAt(chatID, i + 1)

\* parseOrigin.
parseOrigin(chatID) ==
    LET i == CutAt(chatID, 1)
    IN  IF i = 0 THEN [ch |-> <<>>, chat |-> <<>>]
        ELSE [ch |-> SubSeq(chatID, 1, i - 1), chat |-> SubSeq(chatID, i + 1, Len(chatID))]

\* processInbound: the channel and chat id of the reply (omsg), without its
\* content.  A channel name is one piece.
replyTarget(msg) ==
    IF msg.channel = "system"
    THEN LET o == parseOrigin(msg.chat)
         IN  IF o.ch = <<>> \/ o.chat = <<>>
             THEN [channel |-> "cli", chat |-> msg.chat]
             ELSE [channel |-> o.ch[1], chat |-> o.chat]
    ELSE [channel |-> msg.channel, chat |-> msg.chat]

\* processInbound: the session key it passes to processDirect.
sessionKeyOf(msg) ==
    IF msg.channel = "system"
    THEN Key(replyTarget(msg).channel, replyTarget(msg).chat)
    ELSE IF msg.sessionKey = <<>> THEN Key(msg.channel, msg.chat) ELSE msg.sessionKey

\* cmd_agent.go: the default of the --session flag.
AgentKey == Key("cli", <<"default">>)

\* cmd_cron.go, the gateway's OnHeartbeat: ProcessDirect(prompt, "heartbeat",
\* "cli", "heartbeat").
HeartbeatKey == <<"heartbeat">>
HeartbeatChat == [channel |-> "cli", chat |-> <<"heartbeat">>]

\* The keys of the sessions of one behaviour.
SessionKeys ==
    {sessionKeyOf(m) : m \in GatewayInbound}
        \cup {AgentKey, HeartbeatKey, Key(HeartbeatChat.channel, HeartbeatChat.chat)}

\* The limit of the for loop.
iterLimit == IF tKind = "sub" THEN SubagentMaxIters ELSE maxIters

\* The prompt a turn starts with: system, the history, the user message.
startMessages(key) ==
    <<"system">> \o [i \in 1..Len(session[key]) |-> session[key][i].role] \o <<"user">>

\* appendToolRound with one tool call: the assistant message with the call,
\* the tool result, the nudge.
appendToolRound(msgs) == msgs \o <<"assistant+calls", "tool", "nudge">>

\* sess.Add / sess.AddWithTools; tools: the message lists tools that were used.
SessionMessage(role, content, tools) == [role |-> role, content |-> content, tools |-> tools]

InitTurn ==
    /\ maxIters \in {NewLoopMaxIters(o) : o \in MaxItersOpts}
    /\ loopAlive = TRUE
    /\ ctxDone = FALSE
    /\ turns = 0
    /\ tKind = "none"
    /\ tPc = "idle"
    /\ tMsg = NoInbound
    /\ iter = 0
    /\ chatCalls = 0
    /\ lastText = ""
    /\ tRet = ""
    /\ messages = <<>>
    /\ session = [k \in SessionKeys |-> <<>>]
    /\ saved = [k \in SessionKeys |-> <<>>]
    /\ gwOut = <<>>

\* The agent as the other specifications hold it.
IdleTurn == InitTurn /\ maxIters = DefaultMaxIters

\* The function has returned and its caller has the result: its locals are gone.
leaveLoop ==
    /\ tPc' = "idle"
    /\ tKind' = "none"
    /\ tMsg' = NoInbound
    /\ iter' = 0
    /\ chatCalls' = 0
    /\ lastText' = ""
    /\ tRet' = ""
    /\ messages' = <<>>

\* What every start of a loop sets.
enterLoop(kind, msg) ==
    /\ tPc = "idle"
    /\ turns < MaxTurns
    /\ turns' = turns + 1
    /\ tKind' = kind
    /\ tMsg' = msg
    /\ iter' = 0
    /\ chatCalls' = 0
    /\ lastText' = ""
    /\ tRet' = ""

\* Loop.Run: ConsumeInbound returns a message; processInbound, processDirect up
\* to the for loop.  sessErr: sessions.GetOrCreate fails.
RunConsume(msg, sessErr) ==
    /\ loopAlive
    /\ ~ctxDone
    /\ enterLoop("loop", msg)
    /\ IF sessErr
       THEN tPc' = "failed" /\ messages' = <<>>
       ELSE tPc' = "calling" /\ messages' = startMessages(sessionKeyOf(msg))
    /\ UNCHANGED <<maxIters, loopAlive, ctxDone, session, saved, gwOut, othersOfTurn>>

\* Agent.Process up to the for loop.
Process ==
    /\ enterLoop("agent", NoInbound)
    /\ tPc' = "calling"
    /\ messages' = startMessages(AgentKey)
    /\ UNCHANGED <<maxIters, loopAlive, ctxDone, session, saved, gwOut, othersOfTurn>>

\* runSubagent up to the for loop.
runSubagent ==
    /\ enterLoop("sub", NoInbound)
    /\ tPc' = "calling"
    /\ messages' = <<"system", "user">>
    /\ UNCHANGED <<maxIters, loopAlive, ctxDone, session, saved, gwOut, othersOfTurn>>

\* One pass of the for loop: llm.Chat returns an error.
ChatFails ==
    /\ tPc = "calling"
    /\ iter < iterLimit
    /\ chatCalls' = chatCalls + 1
    /\ tPc' = "failed"
    /\ tRet' = ""
    /\ UNCHANGED <<maxIters, loopAlive, ctxDone, turns, tKind, tMsg, iter, lastText,
                   messages, session, saved, gwOut, othersOfTurn>>

\* A loop whose counter stands still while the model asks for tools.
ChatToolCalls_noCount(text) ==
    /\ tPc = "calling"
    /\ iter < iterLimit
    /\ chatCalls' = chatCalls + 1
    /\ lastText' = IF IsBlank(text) THEN lastText ELSE text
    /\ UNCHANGED <<maxIters, loopAlive, ctxDone, turns, tKind, tPc, tMsg, iter, tRet,
                   messages, session, saved, gwOut, othersOfTurn>>

\* One pass of the for loop: the response has tool calls (and the content
\* `text`); the round goes into the prompt, and the loop continues.  The
\* subagent's round has no nudge.
ChatToolCalls(text) ==
    /\ tPc = "calling"
    /\ iter < iterLimit
    /\ chatCalls' = chatCalls + 1
    /\ iter' = iter + 1
    /\ lastText' = IF IsBlank(text) THEN lastText ELSE text
    /\ messages' = IF tKind = "sub"
                   THEN messages \o <<"assistant+calls", "tool">>
                   ELSE appendToolRound(messages)
    /\ UNCHANGED <<maxIters, loopAlive, ctxDone, turns, tKind, tPc, tMsg, tRet,
                   session, saved, gwOut, othersOfTurn>>

\* The key of the session the running turn holds (sess.Key).
turnKey ==
    IF tKind = "agent" THEN AgentKey
    ELSE IF tKind = "direct" THEN HeartbeatKey
    ELSE sessionKeyOf(tMsg)

\* A Loop.Run that answers every message where it came from.
RunPublish_noRemap ==
    /\ tKind = "loop"
    /\ tPc \in {"done", "exhausted", "failed"}
    /\ gwOut' = Append(gwOut, [channel |-> tMsg.channel, chat |-> tMsg.chat,
                                content |-> IF tPc = "failed" THEN "error: " ELSE tRet])
    /\ tPc' = "idle"
    /\ tKind' = "none"
    /\ tMsg' = NoInbound
    /\ iter' = 0
    /\ chatCalls' = 0
    /\ lastText' = ""
    /\ tRet' = ""
    /\ messages' = <<>>
    /\ UNCHANGED <<maxIters, loopAlive, ctxDone, turns, session, saved, othersOfTurn>>

\* A loop end that stores the whole prompt of the turn in the session.
finish_storesPrompt(final, how) ==
    /\ tPc' = how
    /\ tRet' = IF IsBlank(final) THEN NoResponse ELSE final
    /\ IF tKind = "sub"
       THEN UNCHANGED <<session, saved>>
       ELSE /\ session' = [session EXCEPT ![turnKey] =
                                session[turnKey] \o [i \in 1..Len(messages) |->
                                        SessionMessage(messages[i], "", FALSE)]]
            /\ saved' = [saved EXCEPT ![turnKey] = session'[turnKey]]

\* After the for loop: the sentinel for a blank `final`; the user message and
\* the reply are added to the session and the session is saved (not in
\* runSubagent, which has no session); return.
finish(final, how) ==
    /\ tPc' = how
    /\ tRet' = IF IsBlank(final) THEN NoResponse ELSE final
    /\ IF tKind = "sub"
       THEN UNCHANGED <<session, saved>>
       ELSE /\ session' = [session EXCEPT ![turnKey] = session[turnKey] \o
                  << SessionMessage("user", "input", FALSE),
                     SessionMessage("assistant", tRet', tKind = "agent" /\ iter > 0) >>]
            /\ saved' = [saved EXCEPT ![turnKey] = session'[turnKey]]

\* One pass of the for loop: the response has no tool calls; final =
\* res.Content, break, and the rest of the function.
ChatFinal(text) ==
    /\ tPc = "calling"
    /\ iter < iterLimit
    /\ chatCalls' = chatCalls + 1
    /\ lastText' = IF IsBlank(text) THEN lastText ELSE text
    /\ finish(text, "done")
    /\ UNCHANGED <<maxIters, loopAlive, ctxDone, turns, tKind, tMsg, iter, messages,
                   gwOut, othersOfTurn>>

\* The for loop ends because iter has reached the limit: final is still "".
Exhausted ==
    /\ tPc = "calling"
    /\ iter = iterLimit
    /\ finish("", "exhausted")
    /\ UNCHANGED <<maxIters, loopAlive, ctxDone, turns, tKind, tMsg, iter, chatCalls,
                   lastText, messages, gwOut, othersOfTurn>>

\* The outbound message of Loop.Run.
Outbound(target, content) ==
    [channel |-> target.channel, chat |-> target.chat, content |-> content]

\* A Loop.Run that returns the error of a failed turn.
RunPublish_stopsOnError ==
    /\ tKind = "loop"
    /\ tPc \in {"done", "exhausted", "failed"}
    /\ IF tPc = "failed"
       THEN loopAlive' = FALSE /\ gwOut' = gwOut
       ELSE loopAlive' = loopAlive /\ gwOut' = Append(gwOut, Outbound(replyTarget(tMsg), tRet))
    /\ leaveLoop
    /\ UNCHANGED <<maxIters, ctxDone, turns, session, saved, othersOfTurn>>

\* Loop.Run after processInbound: with an error, the reply "error: ..." when
\* the reply has a channel and a chat id, then continue; without, the reply
\* when it has a channel, a chat id and content.
RunPublish ==
    /\ tKind = "loop"
    /\ tPc \in {"done", "exhausted", "failed"}
    /\ LET omsg == replyTarget(tMsg)
       IN  gwOut' = IF omsg.channel # "" /\ omsg.chat # <<>>
                    THEN IF tPc = "failed"
                         THEN Append(gwOut, Outbound(omsg, "error: "))
                         ELSE IF ~IsBlank(tRet)
                              THEN Append(gwOut, Outbound(omsg, tRet))
                              ELSE gwOut
                    ELSE gwOut
    /\ leaveLoop
    /\ UNCHANGED <<maxIters, loopAlive, ctxDone, turns, session, saved, othersOfTurn>>

\* Agent.Process or runSubagent has returned to its caller.
Returned ==
    /\ tKind \in {"agent", "sub"}
    /\ tPc \in {"done", "exhausted", "failed"}
    /\ leaveLoop
    /\ UNCHANGED <<maxIters, loopAlive, ctxDone, turns, session, saved, gwOut, othersOfTurn>>

\* The root context is cancelled (SIGINT).
Cancel ==
    /\ ~ctxDone
    /\ ctxDone' = TRUE
    /\ UNCHANGED <<maxIters, loopAlive, turns, tKind, tPc, tMsg, iter, chatCalls,
                   lastText, tRet, messages, session, saved, gwOut, othersOfTurn>>

\* Loop.Run: ConsumeInbound returns the context's error; Run returns it.
RunStops ==
    /\ loopAlive
    /\ ctxDone
    /\ tPc = "idle"
    /\ loopAlive' = FALSE
    /\ UNCHANGED <<maxIters, ctxDone, turns, tKind, tPc, tMsg, iter, chatCalls,
                   lastText, tRet, messages, session, saved, gwOut, othersOfTurn>>

NextTurn ==
    \/ \E msg \in GatewayInbound, sessErr \in BOOLEAN : RunConsume(msg, sessErr)
    \/ Process
    \/ runSubagent
    \/ ChatFails
    \/ \E text \in ModelTexts : ChatToolCalls(text)
    \/ \E text \in ModelTexts : ChatFinal(text)
    \/ Exhausted
    \/ RunPublish
    \/ Returned
    \/ Cancel
    \/ RunStops

-----------------------------------------------------------------------------
(* SubagentManager.Spawn.  The spawn tool of a gateway turn starts a       *)
(* goroutine that runs the subagent and then announces the result on the   *)
(* inbound queue, from where Loop.Run takes it as a turn on the `system`   *)
(* channel.  The subagent's own loop is runSubagent above; here its run is *)
(* one step with two results.  The turns the gateway's heartbeat starts by *)
(* ProcessDirect take their turn with those of Loop.Run.                   *)

\* The most goroutines Spawn starts in one behaviour.
MaxSpawns == 2

InitSpawn ==
    /\ subs = <<>>
    /\ sysIn = <<>>

IdleSpawn == InitSpawn

\* tools.Context of the running turn: the channel and chat id processDirect
\* was called with.
toolsContext == IF tKind = "direct" THEN HeartbeatChat ELSE replyTarget(tMsg)

\* The goroutine of Spawn as it starts.  key: the session key of the turn
\* that called the tool (tools.Context.SessionKey), which Spawn is not given.
Subagent(origin, key) ==
    [origin |-> origin, key |-> key, pc |-> "running", failed |-> FALSE, published |-> 0]

\* SubagentManager.Spawn: an empty task is an error; otherwise the goroutine
\* is started and its id is returned.  The id is the index in subs.
Spawn(st, taskBlank, origin, key) ==
    IF taskBlank THEN st
    ELSE Append(st, Subagent(origin, key))

\* One pass of the for loop of processDirect: the response asks for the spawn
\* tool; Execute calls r.spawn with the turn's channel and chat id, the result
\* goes into the prompt, and the loop continues.
ChatSpawn(taskBlank) ==
    /\ tKind \in {"loop", "direct"}
    /\ tPc = "calling"
    /\ iter < iterLimit
    /\ Len(subs) < MaxSpawns
    /\ chatCalls' = chatCalls + 1
    /\ iter' = iter + 1
    /\ messages' = appendToolRound(messages)
    /\ subs' = Spawn(subs, taskBlank, toolsContext, turnKey)
    /\ UNCHANGED <<maxIters, loopAlive, ctxDone, turns, tKind, tPc, tMsg, lastText, tRet,
                   session, saved, gwOut, sysIn, othersOfSpawn>>

\* The goroutine: runSubagent returns, with a result or with an error.
SubagentReturns(id, failed) ==
    /\ id \in DOMAIN subs
    /\ subs[id].pc = "running"
    /\ subs' = [subs EXCEPT ![id] = [subs[id] EXCEPT !.pc = "returned", !.failed = failed]]
    /\ UNCHANGED <<turnVars, sysIn, othersOfSpawn>>

\* The inbound message of the goroutine.
Announcement(id) ==
    [channel |-> "system", sender |-> id,
     chat |-> <<subs[id].origin.channel, ":">> \o subs[id].origin.chat,
     sessionKey |-> <<>>]

\* A goroutine that announces results and keeps errors to itself.
SubAnnounce_successOnly(id) ==
    /\ id \in DOMAIN subs
    /\ subs[id].pc = "returned"
    /\ Len(sysIn) < QueueCap
    /\ IF subs[id].failed
       THEN /\ sysIn' = sysIn
            /\ subs' = [subs EXCEPT ![id] = [subs[id] EXCEPT !.pc = "ended"]]
       ELSE /\ sysIn' = Append(sysIn, Announcement(id))
            /\ subs' = [subs EXCEPT ![id] =
                            [subs[id] EXCEPT !.pc = "ended", !.published = 1]]
    /\ UNCHANGED <<turnVars, othersOfSpawn>>

\* The goroutine: PublishInbound with context.Background(), which waits while
\* the queue is full; then the goroutine ends.
SubAnnounce(id) ==
    /\ id \in DOMAIN subs
    /\ subs[id].pc = "returned"
    /\ Len(sysIn) < QueueCap
    /\ sysIn' = Append(sysIn, Announcement(id))
    /\ subs' = [subs EXCEPT ![id] =
                    [subs[id] EXCEPT !.pc = "ended", !.published = subs[id].published + 1]]
    /\ UNCHANGED <<turnVars, othersOfSpawn>>

\* Loop.Run: ConsumeInbound returns the oldest announcement; processInbound,
\* processDirect up to the for loop.
RunConsumeAnnouncement ==
    /\ loopAlive
    /\ ~ctxDone
    /\ sysIn # <<>>
    /\ enterLoop("loop", Head(sysIn))
    /\ sysIn' = Tail(sysIn)
    /\ tPc' = "calling"
    /\ messages' = startMessages(sessionKeyOf(Head(sysIn)))
    /\ UNCHANGED <<maxIters, loopAlive, ctxDone, session, saved, gwOut, subs, othersOfSpawn>>

\* The heartbeat's OnHeartbeat: Loop.ProcessDirect up to the for loop.
ProcessDirect ==
    /\ enterLoop("direct", NoInbound)
    /\ tPc' = "calling"
    /\ messages' = startMessages(HeartbeatKey)
    /\ UNCHANGED <<maxIters, loopAlive, ctxDone, session, saved, gwOut, moreVars,
                   othersOfSpawn>>

\* ProcessDirect has returned to the heartbeat.
ProcessDirectReturns ==
    /\ tKind = "direct"
    /\ tPc \in {"done", "exhausted", "failed"}
    /\ leaveLoop
    /\ UNCHANGED <<maxIters, loopAlive, ctxDone, turns, session, saved, gwOut, moreVars,
                   othersOfSpawn>>

\* The model answers, or the loop counter has run out.
TurnEnds ==
    \/ ChatFails
    \/ ChatFinal("t1")
    \/ Exhausted

NextSpawn ==
    \/ \E msg \in {m \in GatewayInbound : m.channel # "system"} : RunConsume(msg, FALSE)
    \/ ProcessDirect
    \/ \E taskBlank \in BOOLEAN : ChatSpawn(taskBlank)
    \/ TurnEnds
    \/ RunPublish
    \/ ProcessDirectReturns
    \/ \E id \in 1..MaxSpawns, failed \in BOOLEAN : SubagentReturns(id, failed)
    \/ \E id \in 1..MaxSpawns : SubAnnounce(id)
    \/ RunConsumeAnnouncement

-----------------------------------------------------------------------------
(* tools.Registry: Definitions and Execute.  A registry is its capability  *)
(* fields that are set and its AllowTools list.  Tool names are strings    *)
(* without white space, or blank; the texts of the arguments are sequences *)
(* of pieces, " " being white space.  The bodies of the file, exec, web,   *)
(* skill and spawn tools are not among the sources: such a tool runs and   *)
(* returns a result or an error.                                           *)

\* Definitions: the tools that are always defined, in order.
BaseTools == <<"read_file", "write_file", "edit_file", "list_dir", "exec", "web_fetch">>

\* The field of the Registry that each further tool needs.
Capability ==
    [read_skill |-> "ReadSkill", web_search |-> "BraveAPIKey", message |-> "Outbound",
     spawn |-> "Spawn", cron |-> "Cron",
     memory_search |-> "MemorySearch", memory_get |-> "MemorySearch"]

\* Definitions: the further tools in the order they are appended.
GatedTools ==
    <<"read_skill", "web_search", "message", "spawn", "cron", "memory_search", "memory_get">>

\* The cases of the switch of Execute.
KnownTools == {BaseTools[i] : i \in DOMAIN BaseTools} \cup DOMAIN Capability

\* strings.TrimSpace of a tool name.
TrimName(n) == IF n = " " THEN "" ELSE n

Registry(owner, caps, allow) == [owner |-> owner, caps |-> caps, AllowTools |-> allow]

\* Registry.allowSet.
allowSet(r) == {TrimName(r.AllowTools[i]) : i \in DOMAIN r.AllowTools} \ {""}

\* A registry that lets every name through.
allowed_always(r, name) == TRUE

\* Registry.allowed.
allowed(r, name) ==
    IF Len(r.AllowTools) = 0 THEN TRUE ELSE name \in allowSet(r)

\* Registry.Definitions: the names of the definitions it returns.
Definitions(r) ==
    LET all == BaseTools \o SelectSeq(GatedTools, LAMBDA n : Capability[n] \in r.caps)
    IN  IF Len(r.AllowTools) = 0 THEN all
        ELSE SelectSeq(all, LAMBDA n : TrimName(n) # "" /\ TrimName(n) \in allowSet(r))

\* What Execute returns and does: the error ("" for nil), the tool whose body
\* ran ("none" when none did), and the outbound messages it published.
Result(err, ran, pub) == [err |-> err, ran |-> ran, pub |-> pub]

\* Registry.message.  outboundErr: r.Outbound returns an error.
message(r, channel, chatID, content, outboundErr) ==
    IF TrimSpace(content) = <<>> THEN Result("content is empty", "message", <<>>)
    ELSE IF TrimSpace(channel) = <<>> \/ TrimSpace(chatID) = <<>>
    THEN Result("no target channel/chat_id", "message", <<>>)
    ELSE IF "Outbound" \notin r.caps
    THEN Result("message sending not configured", "message", <<>>)
    ELSE IF outboundErr THEN Result("outbound error", "message", <<>>)
    ELSE Result("", "message",
                << [channel |-> channel, chat |-> chatID, content |-> TrimSpace(content)] >>)

\* A message case of Execute that lets the current chat through.
messageCase_anyTarget(r, tctx, a) ==
    message(r, TrimSpace(a.channel), TrimSpace(a.chat), a.content, a.fails)

\* Execute, case "message".
messageCase(r, tctx, a) ==
    LET ch  == TrimSpace(a.channel)
        cid == TrimSpace(a.chat)
    IN  IF ch = <<>> \/ cid = <<>>
        THEN Result("message requires explicit channel and chat_id", "none", <<>>)
        ELSE IF /\ TrimSpace(tctx.channel) # <<>>
                /\ TrimSpace(tctx.chat) # <<>>
                /\ ch = TrimSpace(tctx.channel)
                /\ cid = TrimSpace(tctx.chat)
        THEN Result("message to current session is not allowed", "none", <<>>)
        ELSE message(r, ch, cid, a.content, a.fails)

\* Registry.cronTool, as far as the service is concerned: without one, an
\* error; with one, the action runs and returns a result or an error.
cronTool(r, a) ==
    IF "Cron" \notin r.caps THEN Result("cron service not configured", "cron", <<>>)
    ELSE Result(IF a.fails THEN "tool error" ELSE "", "cron", <<>>)

\* Registry.memorySearch: an empty query and a registry without MemorySearch
\* both return a JSON text and a nil error; a failed search returns a JSON
\* text with the error, and a nil error.
memorySearch(r, a) == Result("", "memory_search", <<>>)

\* Registry.memoryGet: likewise.
memoryGet(r, a) == Result("", "memory_get", <<>>)

\* The tools whose bodies are not among the sources.  A tool whose registry
\* field is not set returns an error.
otherTool(r, name, a) ==
    IF name \in DOMAIN Capability /\ Capability[name] \notin r.caps
    THEN Result("not configured", name, <<>>)
    ELSE Result(IF a.fails THEN "tool error" ELSE "", name, <<>>)

\* Registry.Execute.
Execute(r, tctx, name, a) ==
    IF ~allowed(r, name) THEN Result("tool disabled", "none", <<>>)
    ELSE IF name \notin KnownTools THEN Result("unknown tool", "none", <<>>)
    ELSE IF ~a.parses THEN Result("json", "none", <<>>)
    ELSE IF name = "message" THEN messageCase(r, tctx, a)
    ELSE IF name = "cron" THEN cronTool(r, a)
    ELSE IF name = "memory_search" THEN memorySearch(r, a)
    ELSE IF name = "memory_get" THEN memoryGet(r, a)
    ELSE otherTool(r, name, a)

\* runSubagent: the AllowTools of its registry.
SubagentAllowTools ==
    <<"read_file", "write_file", "list_dir", "exec", "web_search", "web_fetch">>

\* A subagent that is handed the registry of the loop.
SubagentRegistry_shared(braveAPIKey) ==
    Registry("subagent",
             {"ReadSkill", "Outbound", "Spawn", "Cron"}
                \cup (IF braveAPIKey THEN {"BraveAPIKey"} ELSE {}),
             <<>>)

\* runSubagent: its registry; the Brave key is that of the loop's registry.
SubagentRegistry(braveAPIKey) ==
    Registry("subagent", IF braveAPIKey THEN {"BraveAPIKey"} ELSE {}, SubagentAllowTools)

\* The registries: those of NewLoop (Outbound and ReadSkill always set, Spawn
\* set by SetSpawn), of the tests (fields set one by one), of runSubagent.
CapSets ==
    { {}, {"Outbound"}, {"MemorySearch"}, {"Cron", "Spawn"},
      {"ReadSkill", "Outbound", "Spawn"},
      {"ReadSkill", "BraveAPIKey", "Outbound", "Spawn", "Cron", "MemorySearch"} }

AllowToolsLists ==
    { <<>>, <<" ">>, <<"message">>, <<"exec", "", "bogus">>,
      <<"memory_get", "spawn", "cron">> }

Registries ==
    {Registry("other", caps, allow) : caps \in CapSets, allow \in AllowToolsLists}
        \cup {SubagentRegistry(b) : b \in BOOLEAN}

\* The names a model may call.
CallNames == KnownTools \cup {"bogus", ""}

\* tools.Context of the callers: a gateway turn, the subagent, and none.
Contexts ==
    { [channel |-> <<"slack">>, chat |-> <<"c1">>],
      [channel |-> <<"cli">>, chat |-> <<"subagent">>],
      [channel |-> <<>>, chat |-> <<>>] }

\* The arguments of a call.  parses: json.Unmarshal accepts them.  fails: the
\* tool's body, or r.Outbound, returns an error.
MessageArgs ==
    [parses : BOOLEAN, fails : BOOLEAN,
     channel : {<<>>, <<"slack">>, <<" ", "slack">>, <<"discord">>},
     chat : {<<>>, <<"c1">>, <<"c2">>},
     content : {<<>>, <<" ">>, <<"hi", " ">>}]

PlainArgs ==
    [parses : BOOLEAN, fails : BOOLEAN, channel : {<<>>}, chat : {<<>>}, content : {<<>>}]

ArgsOf(name) == IF name = "message" THEN MessageArgs ELSE PlainArgs

NoCall == [name |-> "none"]
NoDefs == <<"not asked">>

InitTools ==
    /\ reg \in Registries
    /\ call = NoCall
    /\ defs = NoDefs

IdleTools ==
    /\ reg = Registry("other", {}, <<>>)
    /\ call = NoCall
    /\ defs = NoDefs

\* The caller asks for the definitions.
CallDefinitions ==
    /\ call = NoCall
    /\ defs = NoDefs
    /\ defs' = Definitions(reg)
    /\ UNCHANGED <<reg, call, othersOfTools>>

\* The caller executes a tool call of the model.
CallExecute(tctx, name, a) ==
    /\ call = NoCall
    /\ call' = [name |-> name, tctx |-> tctx, args |-> a, res |-> Execute(reg, tctx, name, a)]
    /\ UNCHANGED <<reg, defs, othersOfTools>>

\* Execute has returned and its result has gone into the prompt.
ExecuteReturns ==
    /\ call # NoCall
    /\ call' = NoCall
    /\ UNCHANGED <<reg, defs, othersOfTools>>

NextTools ==
    \/ CallDefinitions
    \/ \E tctx \in Contexts, name \in CallNames : \E a \in ArgsOf(name) :
         CallExecute(tctx, name, a)
    \/ ExecuteReturns

-----------------------------------------------------------------------------
(* heartbeat.Service: Start, Stop, TriggerNow, and the loop goroutine with *)
(* its ticker and tick.  The service is enabled and has a handler (onBeat).*)
(* Start is called on a service that has not been stopped, as the gateway  *)
(* does.                                                                   *)

\* The most invocations of the handler in one behaviour.
MaxBeats == 4

InitBeat ==
    /\ hbRunning = FALSE
    /\ hbStop = FALSE
    /\ hbLoop = "none"
    /\ hbTick = 0
    /\ hbInFlight = FALSE
    /\ hbManual = 0
    /\ beats = 0

IdleBeat == InitBeat

\* Service.Start: running.Swap(true), go s.loop(ctx).  SpecBeat is the service
\* as the gateway uses it, started once; SpecLife has Start after Stop.
HbStart ==
    /\ ~hbStop
    /\ ~hbRunning
    /\ hbRunning' = TRUE
    /\ hbLoop' = "select"
    /\ UNCHANGED <<hbStop, hbTick, hbInFlight, hbManual, beats, othersOfBeat>>

\* Service.Stop: running.Swap(false), close(stopCh); the root context being
\* cancelled has the same effect on the loop.
HbStop ==
    /\ hbRunning
    /\ hbRunning' = FALSE
    /\ hbStop' = TRUE
    /\ UNCHANGED <<hbLoop, hbTick, hbInFlight, hbManual, beats, othersOfBeat>>

\* The ticker of the loop fires: its channel holds one tick, and a tick that
\* finds one waiting is dropped.
TickerFires ==
    /\ hbLoop # "none"
    /\ hbTick = 0
    /\ hbTick' = 1
    /\ UNCHANGED <<hbRunning, hbStop, hbLoop, hbInFlight, hbManual, beats, othersOfBeat>>

\* loop: case <-t.C, and Service.tick up to the call of the handler: it
\* returns when inFlight is set; otherwise it sets it, reads HEARTBEAT.md,
\* returns (resetting inFlight) when isEmpty, and calls onBeat.
tick(fileEmpty) ==
    /\ hbLoop = "select"
    /\ hbTick = 1
    /\ hbTick' = 0
    /\ IF hbInFlight \/ fileEmpty
       THEN UNCHANGED <<hbLoop, hbInFlight, beats>>
       ELSE /\ beats < MaxBeats
            /\ hbLoop' = "handler"
            /\ hbInFlight' = TRUE
            /\ beats' = beats + 1
    /\ UNCHANGED <<hbRunning, hbStop, hbManual, othersOfBeat>>

\* Service.tick: onBeat returns; the reply is logged or not; the deferred
\* inFlight.Store(false); back in the select of the loop.
tickReturns ==
    /\ hbLoop = "handler"
    /\ hbLoop' = "select"
    /\ hbInFlight' = FALSE
    /\ UNCHANGED <<hbRunning, hbStop, hbTick, hbManual, beats, othersOfBeat>>

\* loop: case <-s.stopCh or <-ctx.Done(): return.
loopReturns ==
    /\ hbLoop = "select"
    /\ hbStop
    /\ hbLoop' = "none"
    /\ UNCHANGED <<hbRunning, hbStop, hbTick, hbInFlight, hbManual, beats, othersOfBeat>>

\* Service.TriggerNow: the handler is called.
TriggerNow ==
    /\ beats < MaxBeats
    /\ hbManual' = hbManual + 1
    /\ beats' = beats + 1
    /\ UNCHANGED <<hbRunning, hbStop, hbLoop, hbTick, hbInFlight, othersOfBeat>>

\* Service.TriggerNow: the handler returns.
TriggerNowReturns ==
    /\ hbManual > 0
    /\ hbManual' = hbManual - 1
    /\ UNCHANGED <<hbRunning, hbStop, hbLoop, hbTick, hbInFlight, beats, othersOfBeat>>

NextBeat ==
    \/ HbStart
    \/ HbStop
    \/ TickerFires
    \/ \E fileEmpty \in BOOLEAN : tick(fileEmpty)
    \/ tickReturns
    \/ loopReturns
    \/ TriggerNow
    \/ TriggerNowReturns

-----------------------------------------------------------------------------
(* memory.IndexManager: NewIndexManager, Sync (and the sync of Search),    *)
(* and the memory files the workspace holds.  The store is the SQLite      *)
(* database: its tables files, chunks, chunks_vec, chunks_fts and          *)
(* embedding_cache and the meta row.  Sync holds dbMu from its first       *)
(* statement to its last, so one Sync is one step.  store.vector.enabled   *)
(* is set (the default), and the vec0 and fts5 modules are there.          *)

\* The memory files listMemoryPaths can find, in the order of sort.Strings.
MemoryPaths == <<"MEMORY.md", "memory/a.md">>
\* A line of blanks; "a" and "b" are lines of text.  Every line is between 16 and
\* 31 bytes long, so with chunking.tokens 8 (32 bytes) and no overlap
\* chunkMarkdown closes a chunk at each line.
BlankLine == "  "
\* The file is not there.
Absent == <<"ENOENT">>
\* What a memory file may hold: nothing, one line, a line of blanks and a line.
Contents == {<<>>, <<"a">>, <<BlankLine, "b">>}
\* The configurations: the embedding model, which stays, and cache.enabled.
Configs == {[model |-> "m1", cacheEnabled |-> TRUE], [model |-> "m1", cacheEnabled |-> FALSE]}
\* The length of the vectors the endpoint returns (the test server's).
EmbeddingDims == 8

NoMeta == [Model |-> "", VectorDims |-> -1]
NoSync == [ran |-> FALSE, ok |-> FALSE, force |-> FALSE, clean |-> FALSE,
           wrote |-> FALSE, calls |-> 0]

\* hashText: the SHA-256 of the text, in hex.
hashText(s) == <<"sha256", s>>

\* strings.TrimSpace(c.Text) == "".
Blank(text) == text \in {"", BlankLine}

\* chunkMarkdown on such lines: strings.Split of the empty file is one empty line.
chunkMarkdown(content) ==
    LET lines == IF content = <<>> THEN <<"">> ELSE content
    IN  [i \in 1..Len(lines) |->
            [StartLine |-> i, EndLine |-> i, Text |-> lines[i], Hash |-> hashText(lines[i])]]

\* indexFileLocked: the chunks that are not blank.
filtered(content) == SelectSeq(chunkMarkdown(content), LAMBDA c : ~Blank(c.Text))

\* indexFileLocked: the id of a chunk.
chunkID(path, c, model) == hashText(<<path, c.StartLine, c.EndLine, c.Hash, model>>)

\* The rows indexFileLocked inserts for a file.
chunkRows(path, content, model) ==
    { [id |-> chunkID(path, filtered(content)[i], model), path |-> path, model |-> model] :
        i \in 1..Len(filtered(content)) }

\* The ids of the rows of chunks with this path.
idsOfPath(ix, path) == { r.id : r \in { q \in ix.chunks : q.path = path } }

\* resetIndexLocked.
resetIndexLocked(ix) ==
    [ix EXCEPT !.files = [p \in DOMAIN ix.files |-> Absent],
               !.chunks = {},
               !.chunks_fts = {},
               !.chunks_vec = IF ix.vectorDims > 0 THEN {} ELSE @,
               !.vectorDims = 0,
               !.vectorReady = FALSE,
               !.wrote = TRUE]

\* ensureVectorTableLocked, with store.vector.enabled.
ensureVectorTableLocked(ix, dims) ==
    IF dims <= 0 \/ (ix.vectorReady /\ ix.vectorDims = dims) THEN ix
    ELSE [ix EXCEPT !.chunks_vec = IF ix.vectorDims > 0 /\ ix.vectorDims # dims THEN {} ELSE @,
                    !.vectorReady = TRUE,
                    !.vectorDims = dims]

\* deletePathLocked.
deletePathLocked(ix, c, path) ==
    [ix EXCEPT !.chunks_vec = IF ix.vectorReady THEN @ \ idsOfPath(ix, path) ELSE @,
               !.chunks_fts = { r \in @ : ~(r.path = path /\ r.model = c.model) },
               !.chunks = { r \in @ : r.path # path },
               !.files = [@ EXCEPT ![path] = Absent],
               !.wrote = TRUE]

\* embedChunksWithCacheLocked: the chunks the cache does not hold go to the
\* endpoint in one EmbedBatch, which fails or returns a vector for each.
embedChunksWithCacheLocked(ix, c, chs, embedErr) ==
    LET hit(ch) == c.cacheEnabled /\ <<c.model, ch.Hash>> \in ix.embedding_cache
        missing == { i \in 1..Len(chs) : ~hit(chs[i]) }
    IN  IF missing = {} THEN ix
        ELSE IF embedErr THEN [ix EXCEPT !.calls = @ + 1, !.err = TRUE]
        ELSE [ix EXCEPT !.calls = @ + 1,
                        !.embedding_cache =
                            IF c.cacheEnabled
                            THEN @ \cup { <<c.model, chs[i].Hash>> : i \in missing }
                            ELSE @]

\* indexFileLocked.
indexFileLocked(ix, c, path, content, embedErr) ==
    LET e == embedChunksWithCacheLocked(ix, c, filtered(content), embedErr)
        dims == IF Len(filtered(content)) > 0 THEN EmbeddingDims ELSE 0
        vectorOK == dims > 0
        v == ensureVectorTableLocked(e, dims)
        rows == chunkRows(path, content, c.model)
    IN  IF e.err THEN e
        ELSE [v EXCEPT
                !.chunks_vec = (IF vectorOK THEN @ \ idsOfPath(v, path) ELSE @)
                                   \cup { r.id : r \in rows },
                !.chunks_fts = { r \in @ : ~(r.path = path /\ r.model = c.model) } \cup rows,
                !.chunks = { r \in @ : r.path # path } \cup rows,
                !.files = [@ EXCEPT ![path] = hashText(content)],
                !.wrote = TRUE]

\* A test of the row in files that is never met.
unchangedFile_never(ix, path, content, needFull) == FALSE

\* syncLocked: the file's row in files holds its hash, and the index is not rebuilt.
unchangedFile(ix, path, content, needFull) ==
    ~needFull /\ ix.files[path] = hashText(content)

\* syncLocked: the loop over the files on disk, from the i-th on.
RECURSIVE indexFiles(_, _, _, _, _, _)
indexFiles(ix, c, d, needFull, failPath, i) ==
    IF i > Len(MemoryPaths) \/ ix.err THEN ix
    ELSE LET path == MemoryPaths[i]
         IN  IF d[path] = Absent \/ unchangedFile(ix, path, d[path], needFull)
             THEN indexFiles(ix, c, d, needFull, failPath, i + 1)
             ELSE indexFiles(indexFileLocked(ix, c, path, d[path], failPath = path),
                             c, d, needFull, failPath, i + 1)

\* syncLocked: the rows of files whose file is gone are deleted, one by one.
RECURSIVE deleteStale(_, _, _, _)
deleteStale(ix, c, d, i) ==
    IF i > Len(MemoryPaths) THEN ix
    ELSE LET path == MemoryPaths[i]
         IN  IF ix.files[path] # Absent /\ d[path] = Absent
             THEN deleteStale(deletePathLocked(ix, c, path), c, d, i + 1)
             ELSE deleteStale(ix, c, d, i + 1)

\* syncLocked.
syncLocked(ix, c, d, force, failPath) ==
    LET needFull == force \/ ix.meta = NoMeta \/ ix.meta.Model # c.model
        reset == IF needFull THEN resetIndexLocked(ix) ELSE ix
        indexed == indexFiles(reset, c, d, needFull, failPath, 1)
        swept == deleteStale(indexed, c, d, 1)
    IN  IF indexed.err THEN indexed
        ELSE [swept EXCEPT !.meta = [Model |-> c.model, VectorDims |-> swept.vectorDims]]

InitIndex ==
    /\ disk = [p \in {MemoryPaths[i] : i \in 1..Len(MemoryPaths)} |-> Absent]
    /\ files = [p \in {MemoryPaths[i] : i \in 1..Len(MemoryPaths)} |-> Absent]
    /\ chunks = {}
    /\ chunks_vec = {}
    /\ chunks_fts = {}
    /\ embedding_cache = {}
    /\ meta = NoMeta
    /\ cfg = [model |-> "m1", cacheEnabled |-> TRUE]
    /\ vectorReady = FALSE
    /\ vectorDims = 0
    /\ dirty = TRUE
    /\ lastSync = NoSync

IdleIndex == InitIndex

\* The manager and its store as syncLocked finds them.
theIndex ==
    [files |-> files, chunks |-> chunks, chunks_vec |-> chunks_vec, chunks_fts |-> chunks_fts,
     embedding_cache |-> embedding_cache, meta |-> meta, vectorReady |-> vectorReady,
     vectorDims |-> vectorDims, wrote |-> FALSE, calls |-> 0, err |-> FALSE]

\* A memory file is created or rewritten.
WriteFile(path, content) ==
    /\ disk[path] # content
    /\ disk' = [disk EXCEPT ![path] = content]
    /\ dirty' = TRUE
    /\ lastSync' = NoSync
    /\ UNCHANGED <<files, chunks, chunks_vec, chunks_fts, embedding_cache, meta, cfg,
                   vectorReady, vectorDims, othersOfIndex>>

\* A memory file is removed.
RemoveFile(path) ==
    /\ disk[path] # Absent
    /\ disk' = [disk EXCEPT ![path] = Absent]
    /\ dirty' = TRUE
    /\ lastSync' = NoSync
    /\ UNCHANGED <<files, chunks, chunks_vec, chunks_fts, embedding_cache, meta, cfg,
                   vectorReady, vectorDims, othersOfIndex>>

\* NewIndexManager: the process starts again on the same store, with configuration c.
NewIndexManager(c) ==
    /\ cfg' = c
    /\ vectorDims' = IF meta # NoMeta /\ meta.VectorDims > 0 THEN meta.VectorDims ELSE 0
    /\ vectorReady' = (meta # NoMeta /\ meta.VectorDims > 0)
    /\ dirty' = (dirty \/ c # cfg)
    /\ lastSync' = NoSync
    /\ UNCHANGED <<disk, files, chunks, chunks_vec, chunks_fts, embedding_cache, meta,
                   othersOfIndex>>

\* IndexManager.Sync(ctx, force), and Search with sync.onSearch (force = false).
\* The call of the embedding endpoint for the file failPath, if there is one, fails.
Sync(force, failPath) ==
    \E r \in {syncLocked(theIndex, cfg, disk, force, failPath)} :
        /\ files' = r.files
        /\ chunks' = r.chunks
        /\ chunks_vec' = r.chunks_vec
        /\ chunks_fts' = r.chunks_fts
        /\ embedding_cache' = r.embedding_cache
        /\ meta' = r.meta
        /\ vectorReady' = r.vectorReady
        /\ vectorDims' = r.vectorDims
        /\ lastSync' = [ran |-> TRUE, ok |-> ~r.err, force |-> force, clean |-> ~dirty,
                        wrote |-> r.wrote, calls |-> r.calls]
        /\ dirty' = r.err
        /\ UNCHANGED <<disk, cfg, othersOfIndex>>

NextIndex ==
    \/ \E path \in DOMAIN disk, content \in Contents : WriteFile(path, content)
    \/ \E path \in DOMAIN disk : RemoveFile(path)
    \/ \E c \in Configs : NewIndexManager(c)
    \/ \E force \in BOOLEAN, failPath \in DOMAIN disk \cup {"none"} : Sync(force, failPath)

-----------------------------------------------------------------------------
(* The gateway (cmd_cron.go, cmdGateway): the goroutines that start turns. *)
(* Loop.Run is one goroutine: it takes a message from the inbound queue,   *)
(* runs processInbound to its end and only then takes the next.  The       *)
(* adapters, the handler of the cron service and the goroutines of the     *)
(* subagents publish to that queue.  The heartbeat's handler does not: it  *)
(* calls Loop.ProcessDirect in the goroutine of the heartbeat's loop.      *)
(***************************************************************************)

\* Messages, cron fires, heartbeats and spawns in one run.
MaxEvents == 4

NoTurn == [channel |-> "", chat |-> <<>>, key |-> <<>>]

\* The chats: one of an adapter, and the one the heartbeat names.
GatewayChats == { [channel |-> "slack", chat |-> <<"c1">>], HeartbeatChat }

\* A heartbeat handler that names its session after its chat.
OnHeartbeatTurn_chatKey ==
    [channel |-> HeartbeatChat.channel, chat |-> HeartbeatChat.chat,
     key |-> Key(HeartbeatChat.channel, HeartbeatChat.chat)]

\* OnHeartbeat of the gateway: loop.ProcessDirect(ctx, prompt, "heartbeat",
\* "cli", "heartbeat").
OnHeartbeatTurn ==
    [channel |-> HeartbeatChat.channel, chat |-> HeartbeatChat.chat, key |-> HeartbeatKey]

\* processInbound: the turn of an inbound message.
InboundTurn(msg) ==
    [channel |-> replyTarget(msg).channel, chat |-> replyTarget(msg).chat,
     key |-> sessionKeyOf(msg)]

MayPublish == gEvents < MaxEvents /\ Len(gIn) < QueueCap

\* An adapter publishes a message of a chat; SessionKey is "<channel>:" + chatID.
AdapterPublishes(c) ==
    /\ MayPublish
    /\ gIn' = Append(gIn, [channel |-> c.channel, chat |-> c.chat,
                           sessionKey |-> Key(c.channel, c.chat)])
    /\ gEvents' = gEvents + 1
    /\ UNCHANGED <<gLoop, gBeat, gSubs, cronVars, besideGate>>

\* The handler the gateway gives the cron service: a job that is to be
\* delivered is published inbound, any other job does nothing.
onJob(deliver, c) ==
    /\ MayPublish
    /\ gIn' = IF ~deliver THEN gIn
              ELSE Append(gIn, [channel |-> c.channel, chat |-> c.chat,
                                sessionKey |-> Key(c.channel, c.chat)])
    /\ gEvents' = gEvents + 1
    /\ UNCHANGED <<gLoop, gBeat, gSubs, cronVars, besideGate>>

\* Loop.Run: ConsumeInbound, then processInbound up to processDirect.
GatewayConsume ==
    /\ gLoop = NoTurn
    /\ gIn # <<>>
    /\ gLoop' = InboundTurn(Head(gIn))
    /\ gIn' = Tail(gIn)
    /\ UNCHANGED <<gBeat, gSubs, gEvents, cronVars, besideGate>>

\* Loop.Run: processInbound has returned, the reply is published and the for
\* loop starts over.
GatewayTurnEnds ==
    /\ gLoop # NoTurn
    /\ gLoop' = NoTurn
    /\ UNCHANGED <<gIn, gBeat, gSubs, gEvents, cronVars, besideGate>>

\* The heartbeat's tick calls the handler: ProcessDirect begins.
OnHeartbeat ==
    /\ gEvents < MaxEvents
    /\ gBeat = NoTurn
    /\ gBeat' = OnHeartbeatTurn
    /\ gEvents' = gEvents + 1
    /\ UNCHANGED <<gIn, gLoop, gSubs, cronVars, besideGate>>

\* ProcessDirect has returned to the heartbeat.
OnHeartbeatReturns ==
    /\ gBeat # NoTurn
    /\ gBeat' = NoTurn
    /\ UNCHANGED <<gIn, gLoop, gSubs, gEvents, cronVars, besideGate>>

\* A turn calls the spawn tool: Execute passes the turn's channel and chat id
\* as the origin, and Spawn starts the goroutine.
TurnSpawns(t) ==
    /\ gEvents < MaxEvents
    /\ t # NoTurn
    /\ gSubs' = gSubs \cup {[channel |-> t.channel, chat |-> t.chat]}
    /\ gEvents' = gEvents + 1
    /\ UNCHANGED <<gIn, gLoop, gBeat, cronVars, besideGate>>

\* The goroutine of a subagent publishes its announcement on the channel
\* "system" with ChatID origin channel + ":" + origin chat id and no SessionKey.
SubagentAnnounces(origin) ==
    /\ origin \in gSubs
    /\ Len(gIn) < QueueCap
    /\ gIn' = Append(gIn, [channel |-> "system",
                           chat |-> <<origin.channel, ":">> \o origin.chat,
                           sessionKey |-> <<>>])
    /\ gSubs' = gSubs \ {origin}
    /\ UNCHANGED <<gLoop, gBeat, gEvents, cronVars, besideGate>>

NextGateway ==
    \/ \E c \in GatewayChats : AdapterPublishes(c)
    \/ \E deliver \in BOOLEAN, c \in GatewayChats : onJob(deliver, c)
    \/ GatewayConsume
    \/ GatewayTurnEnds
    \/ OnHeartbeat
    \/ OnHeartbeatReturns
    \/ TurnSpawns(gLoop)
    \/ TurnSpawns(gBeat)
    \/ \E origin \in GatewayChats : SubagentAnnounces(origin)

-----------------------------------------------------------------------------
(* Agent.scheduleConsolidation (agent.go).  Process calls it before the    *)
(* turn.  The test and the setting of consolidationRunning are one locked  *)
(* section; the goroutine it starts clears the flag in a deferred function *)
(* as its last act.  Whether the session needs consolidation, and what     *)
(* maybeConsolidateSession returns, are inputs.                            *)
(***************************************************************************)

\* Calls of scheduleConsolidation in one run.
MaxRequests == 4

\* The locked section of a scheduler that does not look at the flag.
lockedSection_noFlag(isRunning) == [start |-> TRUE, running |-> TRUE]

\* The locked section: whether a goroutine is to be started, and the flag.
lockedSection(isRunning) ==
    IF isRunning THEN [start |-> FALSE, running |-> TRUE]
    ELSE [start |-> TRUE, running |-> TRUE]

\* Process begins, in whatever goroutine calls it: scheduleConsolidation, then
\* the turn.  nilSess: a.sess is nil; needs: sess.NeedsConsolidation(memoryWindow).
scheduleConsolidation(nilSess, needs) ==
    /\ consAsked < MaxRequests
    /\ consAsked' = consAsked + 1
    /\ aProc' = aProc + 1
    /\ IF nilSess \/ ~needs
       THEN UNCHANGED <<consolidationRunning, consWorking, consStarted, consDropped>>
       ELSE LET r == lockedSection(consolidationRunning)
            IN  /\ consolidationRunning' = r.running
                /\ consWorking' = IF r.start THEN consWorking + 1 ELSE consWorking
                /\ consStarted' = IF r.start THEN consStarted + 1 ELSE consStarted
                /\ consDropped' = IF r.start THEN consDropped ELSE consDropped + 1
    /\ UNCHANGED <<consSaving, cronVars, besideConsol>>

\* Process returns.
ProcessReturns ==
    /\ aProc > 0
    /\ aProc' = aProc - 1
    /\ UNCHANGED <<consolidationRunning, consWorking, consSaving, consAsked, consStarted,
                   consDropped, cronVars, besideConsol>>

\* The goroutine: maybeConsolidateSession returns an error or done = false; the
\* deferred function clears the flag.
consolidationSkipped ==
    /\ consWorking > 0
    /\ consWorking' = consWorking - 1
    /\ consolidationRunning' = FALSE
    /\ UNCHANGED <<consSaving, aProc, consAsked, consStarted, consDropped, cronVars, besideConsol>>

\* The goroutine: maybeConsolidateSession returns done = true; session.Save
\* is next.
consolidationDone ==
    /\ consWorking > 0
    /\ consWorking' = consWorking - 1
    /\ consSaving' = consSaving + 1
    /\ UNCHANGED <<consolidationRunning, aProc, consAsked, consStarted, consDropped, cronVars,
                   besideConsol>>

\* The goroutine: session.Save returns, with or without an error; the deferred
\* function clears the flag.
consolidationSaved ==
    /\ consSaving > 0
    /\ consSaving' = consSaving - 1
    /\ consolidationRunning' = FALSE
    /\ UNCHANGED <<consWorking, aProc, consAsked, consStarted, consDropped, cronVars, besideConsol>>

NextConsol ==
    \/ \E nilSess, needs \in BOOLEAN : scheduleConsolidation(nilSess, needs)
    \/ ProcessReturns
    \/ consolidationSkipped
    \/ consolidationDone
    \/ consolidationSaved

-----------------------------------------------------------------------------
(* heartbeat.Service: Start and Stop called one after the other in any     *)
(* order, and the context cancelled at any time.  New makes stopCh and     *)
(* stoppedCh once; Stop closes stopCh and waits on stoppedCh; every loop   *)
(* goroutine closes stoppedCh when it returns.  Closing a closed channel   *)
(* panics, and a panic in any goroutine ends the process.                  *)
(***************************************************************************)

\* Calls of Start and Stop in one run.
MaxLifeCalls == 4

ClosedTwice == "close of closed channel"

\* close(ch): the channel and the panic after it.
close(isClosed) ==
    IF isClosed THEN [closed |-> TRUE, panic |-> ClosedTwice]
    ELSE [closed |-> TRUE, panic |-> ""]

\* The process is alive and no call of the caller is under way.
MayCall == lPanic = "" /\ lWaiting = 0 /\ lCalls < MaxLifeCalls

\* Service.Start (the service is enabled and has a handler).
LifeStart ==
    /\ MayCall
    /\ lCalls' = lCalls + 1
    /\ lStopped' = FALSE
    /\ IF lRunning
       THEN UNCHANGED <<lRunning, lSelect, lTick>>
       ELSE /\ lRunning' = TRUE
            /\ lSelect' = lSelect + 1
            /\ lTick' = FALSE
    /\ UNCHANGED <<lStopCh, lStoppedCh, lCtx, lHandler, lWaiting, lPanic, cronVars, besideLife>>

\* Service.Stop up to its wait: it returns at once when the service is not
\* running, else it closes stopCh and waits on stoppedCh.
LifeStop ==
    /\ MayCall
    /\ lCalls' = lCalls + 1
    /\ IF ~lRunning
       THEN /\ lStopped' = TRUE
            /\ UNCHANGED <<lRunning, lStopCh, lWaiting, lPanic>>
       ELSE /\ lRunning' = FALSE
            /\ lStopCh' = close(lStopCh).closed
            /\ lPanic' = close(lStopCh).panic
            /\ lWaiting' = 1
            /\ UNCHANGED lStopped
    /\ UNCHANGED <<lStoppedCh, lCtx, lTick, lSelect, lHandler, cronVars, besideLife>>

\* Service.Stop: <-s.stoppedCh returns, and Stop does.
LifeStopReturns ==
    /\ lPanic = ""
    /\ lWaiting = 1
    /\ lStoppedCh
    /\ lWaiting' = 0
    /\ lStopped' = TRUE
    /\ UNCHANGED <<lRunning, lStopCh, lStoppedCh, lCtx, lTick, lSelect, lHandler, lPanic, lCalls,
                   cronVars, besideLife>>

\* The context is cancelled.
LifeCancel ==
    /\ lPanic = ""
    /\ ~lCtx
    /\ lCtx' = TRUE
    /\ UNCHANGED <<lRunning, lStopCh, lStoppedCh, lTick, lSelect, lHandler, lWaiting, lStopped, lPanic,
                   lCalls, cronVars, besideLife>>

\* The ticker of a loop sends a tick; t.C holds one tick at most.
LifeTickerFires ==
    /\ lPanic = ""
    /\ lSelect + lHandler > 0
    /\ ~lTick
    /\ lTick' = TRUE
    /\ UNCHANGED <<lRunning, lStopCh, lStoppedCh, lCtx, lSelect, lHandler, lWaiting, lStopped,
                   lPanic, lCalls, cronVars, besideLife>>

\* loop: case <-t.C, whatever other cases are ready; Service.tick returns at
\* once when a tick is in flight or HEARTBEAT.md is empty, else it calls the
\* handler.
LifeTick(fileEmpty) ==
    /\ lPanic = ""
    /\ lSelect > 0
    /\ lTick
    /\ lTick' = FALSE
    /\ IF lHandler > 0 \/ fileEmpty
       THEN UNCHANGED <<lSelect, lHandler>>
       ELSE /\ lSelect' = lSelect - 1
            /\ lHandler' = lHandler + 1
    /\ UNCHANGED <<lRunning, lStopCh, lStoppedCh, lCtx, lWaiting, lStopped, lPanic, lCalls,
                   cronVars, besideLife>>

\* Service.tick: the handler returns; back in the select.
LifeTickReturns ==
    /\ lPanic = ""
    /\ lHandler > 0
    /\ lHandler' = lHandler - 1
    /\ lSelect' = lSelect + 1
    /\ UNCHANGED <<lRunning, lStopCh, lStoppedCh, lCtx, lTick, lWaiting, lStopped, lPanic, lCalls,
                   cronVars, besideLife>>

\* loop: case <-ctx.Done() or case <-s.stopCh: return, and the deferred
\* close(s.stoppedCh).
LifeLoopReturns ==
    /\ lPanic = ""
    /\ lSelect > 0
    /\ lCtx \/ lStopCh
    /\ lSelect' = lSelect - 1
    /\ lStoppedCh' = close(lStoppedCh).closed
    /\ lPanic' = close(lStoppedCh).panic
    /\ UNCHANGED <<lRunning, lStopCh, lCtx, lTick, lHandler, lWaiting, lStopped, lCalls, cronVars,
                   besideLife>>

NextLife ==
    \/ LifeStart
    \/ LifeStop
    \/ LifeStopReturns
    \/ LifeCancel
    \/ LifeTickerFires
    \/ \E fileEmpty \in BOOLEAN : LifeTick(fileEmpty)
    \/ LifeTickReturns
    \/ LifeLoopReturns

-----------------------------------------------------------------------------
(* whatsapp.Channel.Send: up to maxAttempts calls of wa.SendMessage, a     *)
(* backoff wait between them, and the context of the call.  The errors of  *)
(* wa.SendMessage are inputs, one of each kind shouldRetryWhatsAppSend     *)
(* tells apart.                                                            *)
(***************************************************************************)

\* Calls of Send in one run.
MaxWaSends == 2

maxAttempts == 3

ContextCanceled          == "context canceled"
ContextDeadlineExceeded  == "context deadline exceeded"
ErrIQRateOverLimit       == "rate-overlimit"
ErrIQInternalServerError == "internal-server-error"
ErrIQServiceUnavailable  == "service-unavailable"
ErrIQPartialServerError  == "partial-server-error"
ErrMessageTimedOut       == "message timed out"
ErrNotConnected          == "websocket not connected"
NetTimeout               == "net: i/o timeout"
ErrBadRequest            == "bad request"
ErrInvalidChat           == "invalid whatsapp chat id"
ErrNoClient              == "whatsapp not connected"

\* What wa.SendMessage can return beside nil ("").
SendErrors ==
    { ContextCanceled, ContextDeadlineExceeded, ErrIQRateOverLimit, ErrIQInternalServerError,
      ErrIQServiceUnavailable, ErrIQPartialServerError, ErrMessageTimedOut, ErrNotConnected,
      NetTimeout, ErrBadRequest }

\* whatsappSendBackoff, in milliseconds.
whatsappSendBackoff(attempt) ==
    LET a == IF attempt < 1 THEN 1 ELSE attempt
        shift == IF a - 1 < 4 THEN a - 1 ELSE 4
    IN 300 * 2 ^ shift

shouldRetryWhatsAppSend_always(err, attempt) ==
    IF err = "" THEN [retry |-> FALSE, wait |-> 0]
    ELSE [retry |-> TRUE, wait |-> whatsappSendBackoff(attempt)]

shouldRetryWhatsAppSend(err, attempt) ==
    IF err = "" THEN [retry |-> FALSE, wait |-> 0]
    ELSE IF err \in {ContextCanceled, ContextDeadlineExceeded}
    THEN [retry |-> FALSE, wait |-> 0]
    ELSE IF err \in { ErrIQRateOverLimit, ErrIQInternalServerError, ErrIQServiceUnavailable,
                      ErrIQPartialServerError, ErrMessageTimedOut, ErrNotConnected }
    THEN [retry |-> TRUE, wait |-> whatsappSendBackoff(attempt)]
    ELSE IF err = NetTimeout
    THEN [retry |-> TRUE, wait |-> whatsappSendBackoff(attempt)]
    ELSE [retry |-> FALSE, wait |-> 0]

\* Channel.Send up to the loop: the chat id does not parse, the text is empty
\* after trimming, or the channel has no client; else the first attempt.  The
\* context may be cancelled already.
WaSend(chatOk, textEmpty, connected, cancelled) ==
    /\ waPc = "idle"
    /\ waSends < MaxWaSends
    /\ waSends' = waSends + 1
    /\ waCtx' = cancelled
    /\ waErr' = ""
    /\ IF ~chatOk
       THEN waPc' = "idle" /\ waRet' = ErrInvalidChat /\ waAttempt' = 0 /\ waCalls' = 0
       ELSE IF textEmpty
       THEN waPc' = "idle" /\ waRet' = "nil" /\ waAttempt' = 0 /\ waCalls' = 0
       ELSE IF ~connected
       THEN waPc' = "idle" /\ waRet' = ErrNoClient /\ waAttempt' = 0 /\ waCalls' = 0
       ELSE waPc' = "attempt" /\ waRet' = "" /\ waAttempt' = 1 /\ waCalls' = 1
    /\ UNCHANGED <<cronVars, besideWa>>

\* wa.SendMessage returns err, and the loop body up to the select.
WaSendMessageReturns(err) ==
    /\ waPc = "attempt"
    /\ waErr' = err
    /\ IF err = ""
       THEN waPc' = "idle" /\ waRet' = "nil"
       ELSE LET r == shouldRetryWhatsAppSend(err, waAttempt)
            IN IF ~r.retry \/ waAttempt = maxAttempts
               THEN waPc' = "idle" /\ waRet' = err
               ELSE waPc' = "wait" /\ waRet' = ""
    /\ UNCHANGED <<waAttempt, waCtx, waCalls, waSends, cronVars, besideWa>>

\* The select: case <-t.C, the timer fires before the context is done; the
\* next turn of the loop calls wa.SendMessage.
WaTimerFires ==
    /\ waPc = "wait"
    /\ ~waCtx
    /\ waAttempt' = waAttempt + 1
    /\ waCalls' = waCalls + 1
    /\ waPc' = "attempt"
    /\ UNCHANGED <<waErr, waCtx, waRet, waSends, cronVars, besideWa>>

\* The select: case <-ctx.Done(), return ctx.Err().
WaWaitCancelled ==
    /\ waPc = "wait"
    /\ waCtx
    /\ waPc' = "idle"
    /\ waRet' = ContextCanceled
    /\ UNCHANGED <<waAttempt, waErr, waCtx, waCalls, waSends, cronVars, besideWa>>

\* The caller cancels the context while Send is under way.
WaCancel ==
    /\ waPc # "idle"
    /\ ~waCtx
    /\ waCtx' = TRUE
    /\ UNCHANGED <<waPc, waAttempt, waErr, waCalls, waRet, waSends, cronVars, besideWa>>

NextWa ==
    \/ \E chatOk, textEmpty, connected, cancelled \in BOOLEAN :
          WaSend(chatOk, textEmpty, connected, cancelled)
    \/ \E err \in SendErrors \cup {""} : WaSendMessageReturns(err)
    \/ WaTimerFires
    \/ WaWaitCancelled
    \/ WaCancel

-----------------------------------------------------------------------------
(* heartbeat.Service.tick after the handler has returned: isHeartbeatOK,   *)
(* normalizeToken and the line written to the log.  A reply is a sequence  *)
(* of one-character strings, put together from a few pieces; a run is one  *)
(* tick.                                                                   *)
(***************************************************************************)

\* Pieces in one reply.
MaxPieces == 4

OKToken == <<"H", "E", "A", "R", "T", "B", "E", "A", "T", "_", "O", "K">>

LowerLetters ==
    <<"a", "b", "c", "d", "e", "f", "g", "h", "i", "j", "k", "l", "m",
      "n", "o", "p", "q", "r", "s", "t", "u", "v", "w", "x", "y", "z">>
UpperLetters ==
    <<"A", "B", "C", "D", "E", "F", "G", "H", "I", "J", "K", "L", "M",
      "N", "O", "P", "Q", "R", "S", "T", "U", "V", "W", "X", "Y", "Z">>
DigitChars == {"0", "1", "2", "3", "4", "5", "6", "7", "8", "9"}

UpperChars == { UpperLetters[i] : i \in 1..26 }
UpperOf == [ c \in { LowerLetters[i] : i \in 1..26 } |->
               UpperLetters[CHOOSE i \in 1..26 : LowerLetters[i] = c] ]

\* strings.ToUpper on one character.
ToUpper(c) == IF c \in DOMAIN UpperOf THEN UpperOf[c] ELSE c

\* normalizeToken: upper case, then only A-Z and 0-9 are kept.
RECURSIVE normalizeToken(_)
normalizeToken(s) ==
    IF s = <<>> THEN <<>>
    ELSE LET r == ToUpper(Head(s))
         IN IF r \in UpperChars
            THEN <<r>> \o normalizeToken(Tail(s))
            ELSE IF r \in DigitChars
            THEN <<r>> \o normalizeToken(Tail(s))
            ELSE normalizeToken(Tail(s))

\* strings.Contains(s, sub).
StringsContains(s, sub) ==
    \E i \in 1..(Len(s) + 1) :
        i + Len(sub) - 1 <= Len(s) /\ SubSeq(s, i, i + Len(sub) - 1) = sub

isHeartbeatOK_equal(resp) == normalizeToken(resp) = normalizeToken(OKToken)

isHeartbeatOK(resp) == StringsContains(normalizeToken(resp), normalizeToken(OKToken))

\* truncateForLog.
truncateForLog(s, max) ==
    LET t == TrimSpace(s)
        m == IF max <= 0 THEN 200 ELSE max
    IN IF Len(t) <= m THEN t
       ELSE SubSeq(t, 1, m) \o <<".", ".", ".", "(", "t", "r", "u", "n", "c", "a", "t", "e", "d", ")">>

NoLog == [kind |-> "none", text |-> <<>>]

\* What the handler's replies are made of.
Pieces ==
    { <<"H", "E", "A", "R", "T", "B", "E", "A", "T">>,
      <<"h", "e", "a", "r", "t", "b", "e", "a", "t">>,
      <<"O", "K">>, <<"_">>, <<" ">>, <<"!">> }

RECURSIVE Concat(_)
Concat(ps) == IF ps = <<>> THEN <<>> ELSE Head(ps) \o Concat(Tail(ps))

Replies == { Concat(ps) : ps \in UNION { [1..k -> Pieces] : k \in 0..MaxPieces } }

\* Service.tick from the return of onBeat: an error is logged; a reply that
\* isHeartbeatOK is not; any other reply is logged, truncated, unless it is
\* empty once trimmed.
onBeatReturns ==
    /\ rpPc = "idle"
    /\ rpPc' = "done"
    /\ \E resp \in Replies, err \in BOOLEAN :
          /\ rpReply' = resp
          /\ rpErr' = err
          /\ rpLog' = IF err THEN [kind |-> "error", text |-> <<>>]
                      ELSE IF isHeartbeatOK(resp) THEN NoLog
                      ELSE IF TrimSpace(resp) # <<>>
                      THEN [kind |-> "response", text |-> truncateForLog(resp, 400)]
                      ELSE NoLog
    /\ UNCHANGED <<cronVars, besideReply>>

NextReply == onBeatReturns

-----------------------------------------------------------------------------
(* chunkMarkdown byte by byte, on a file of one line.  A byte of the line  *)
(* is its position in the line (1, 2, ...), so that two chunks holding the *)
(* same byte can be told; the newline is byte 0.  The hash of a chunk is   *)
(* left out.                                                               *)
(***************************************************************************)

\* The longest line, in bytes.
MaxLineLen == 75
\* The largest chunking.tokens.
MaxTokens == 9

DefaultMemorySearchChunkTokens == 400

NL == 0

maxInt(a, b) == IF a > b THEN a ELSE b

\* NewIndexManager: chunking.tokens and chunking.overlap made sane.
normalizeChunking(tokens, overlap) ==
    LET t == IF tokens <= 0 THEN DefaultMemorySearchChunkTokens ELSE tokens
        o == IF overlap < 0 THEN 0 ELSE overlap
    IN [tokens |-> t, overlap |-> IF o >= t THEN t - 1 ELSE o]

\* strings.Split(content, "\n").
RECURSIVE SplitLines(_)
SplitLines(content) ==
    IF \A i \in 1..Len(content) : content[i] # NL THEN <<content>>
    ELSE LET i == CHOOSE k \in 1..Len(content) :
                      content[k] = NL /\ \A j \in 1..(k - 1) : content[j] # NL
         IN <<SubSeq(content, 1, i - 1)>> \o SplitLines(SubSeq(content, i + 1, Len(content)))

\* The segments of a line: the line, or its pieces of maxChars bytes when it
\* is longer than that.
RECURSIVE Pieced(_, _)
Pieced(line, maxChars) ==
    IF Len(line) <= maxChars THEN <<line>>
    ELSE <<SubSeq(line, 1, maxChars)>> \o Pieced(SubSeq(line, maxChars + 1, Len(line)), maxChars)

segmentsOf(line, maxChars) ==
    IF line # <<>> /\ Len(line) > maxChars THEN Pieced(line, maxChars) ELSE <<line>>

\* strings.Join(textLines, "\n").
RECURSIVE JoinLines(_)
JoinLines(recs) ==
    IF recs = <<>> THEN <<>>
    ELSE IF Len(recs) = 1 THEN recs[1].line
    ELSE recs[1].line \o <<NL>> \o JoinLines(Tail(recs))

\* The sum of len(line) + 1 over the records.
RECURSIVE charsOf(_)
charsOf(recs) == IF recs = <<>> THEN 0 ELSE Len(Head(recs).line) + 1 + charsOf(Tail(recs))

\* flush: the chunk of the records gathered, if any.
flush(cur, done) ==
    IF cur = <<>> THEN done
    ELSE Append(done, [StartLine |-> cur[1].no, EndLine |-> cur[Len(cur)].no,
                         Text |-> JoinLines(cur)])

\* carry: the loop from the last record back; the index of the first record
\* kept.
RECURSIVE keepFrom(_, _, _, _)
keepFrom(cur, i, acc, overlapChars) ==
    LET a == acc + Len(cur[i].line) + 1
    IN IF a >= overlapChars \/ i = 1 THEN i ELSE keepFrom(cur, i - 1, a, overlapChars)

carry_none(cur, overlapChars) == <<>>

\* carry: the records the next chunk starts with.
carry(cur, overlapChars) ==
    IF overlapChars <= 0 \/ cur = <<>> THEN <<>>
    ELSE SubSeq(cur, keepFrom(cur, Len(cur), 0, overlapChars), Len(cur))

\* The loop over the segments of a line, and over the lines.
RECURSIVE feedSegments(_, _, _, _, _, _)
feedSegments(segs, lineNo, cur, done, maxChars, overlapChars) ==
    IF segs = <<>> THEN [cur |-> cur, chunks |-> done]
    ELSE LET size == Len(Head(segs)) + 1
             full == charsOf(cur) + size > maxChars /\ cur # <<>>
             c == IF full THEN carry(cur, overlapChars) ELSE cur
             ch == IF full THEN flush(cur, done) ELSE done
         IN feedSegments(Tail(segs), lineNo, Append(c, [line |-> Head(segs), no |-> lineNo]),
                         ch, maxChars, overlapChars)

RECURSIVE feedLines(_, _, _, _, _, _)
feedLines(lines, i, cur, done, maxChars, overlapChars) ==
    IF i > Len(lines) THEN flush(cur, done)
    ELSE LET r == feedSegments(segmentsOf(lines[i], maxChars), i, cur, done, maxChars,
                               overlapChars)
         IN feedLines(lines, i + 1, r.cur, r.chunks, maxChars, overlapChars)

\* chunkMarkdown on the bytes of a file.
chunkMarkdownBytes(content, tokens, overlap) ==
    feedLines(SplitLines(content), 1, <<>>, <<>>, maxInt(32, tokens * 4),
              maxInt(0, overlap * 4))

\* The file of one line of n bytes.
OneLine(n, newline) == [i \in 1..n |-> i] \o (IF newline THEN <<NL>> ELSE <<>>)

\* indexFileLocked: chunkMarkdown with the chunking of the configuration, on a
\* memory file of one line.
chunkFile ==
    /\ ckPc = "idle"
    /\ ckPc' = "done"
    /\ \E n \in 1..MaxLineLen, newline \in BOOLEAN, tokens \in 0..MaxTokens,
          overlap \in -1..MaxTokens :
          LET c == normalizeChunking(tokens, overlap)
          IN /\ c.tokens <= MaxTokens
             /\ ckLen' = n
             /\ ckNewline' = newline
             /\ ckTokens' = c.tokens
             /\ ckOverlap' = c.overlap
             /\ ckChunks' = chunkMarkdownBytes(OneLine(n, newline), c.tokens, c.overlap)
    /\ UNCHANGED <<cronVars, besideChunk>>

NextChunk == chunkFile

-----------------------------------------------------------------------------
(* The specifications.                                                     *)

\* The further parts as the other specifications hold them.
IdleOverlap == sweep2 = IdleSweep
IdleGate == gIn = <<>> /\ gLoop = NoTurn /\ gBeat = NoTurn /\ gSubs = {} /\ gEvents = 0
IdleConsol == consolidationRunning = FALSE /\ consWorking = 0 /\ consSaving = 0 /\ aProc = 0 /\ consAsked = 0 /\ consStarted = 0 /\ consDropped = 0
IdleLife == lRunning = FALSE /\ lStopCh = FALSE /\ lStoppedCh = FALSE /\ lCtx = FALSE /\ lTick = FALSE /\ lSelect = 0 /\ lHandler = 0 /\ lWaiting = 0 /\ lStopped = FALSE /\ lPanic = "" /\ lCalls = 0
IdleWa == waPc = "idle" /\ waAttempt = 0 /\ waErr = "" /\ waCtx = FALSE /\ waCalls = 0 /\ waRet = "" /\ waSends = 0
IdleReply == rpPc = "idle" /\ rpReply = <<>> /\ rpErr = FALSE /\ rpLog = NoLog
IdleChunk == ckPc = "idle" /\ ckLen = 0 /\ ckNewline = FALSE /\ ckTokens = 0 /\ ckOverlap = 0 /\ ckChunks = <<>>
IdleLate == IdleOverlap /\ IdleGate /\ IdleConsol /\ IdleLife /\ IdleWa /\ IdleReply /\ IdleChunk
IdleMore == IdleSpawn /\ IdleTools /\ IdleBeat /\ IdleIndex /\ IdleLate

\* The further variables as the specifications of the cron package and the bus
\* hold them.
InitExt  == InitReaders /\ IdleChan /\ IdleAllow /\ IdleTurn /\ IdleMore

\* The cron service.

InitSvc  == InitCron /\ InitBus /\ InitNext /\ InitExt /\ cExpr = ExprEveryMinute
                     /\ cTime = Date(2026, 2, 13, 10, 0)
Spec     == InitSvc /\ [][NextCron]_vars

\* The cron expression functions.
InitPure == InitNext /\ InitBus /\ InitCron /\ InitExt /\ store = <<>>
SpecNext == InitPure /\ [][NextNext]_vars

\* The bus.
InitQ    == InitBus /\ InitCron /\ store = <<>> /\ InitNext /\ InitExt /\ cExpr = ExprEveryMinute
                    /\ cTime = Date(2026, 2, 13, 10, 0)
SpecBus  == InitQ /\ [][NextBus]_vars

\* The bus with several publishers and two readers on each queue, and publishers
\* that give up on a full queue.
NextBusShared ==
    \/ PublishInbound
    \/ LoopConsume
    \/ LoopReply
    \/ dispatchOutbound
    \/ ReaderConsumeInbound
    \/ ReaderConsumeOutbound
    \/ PublishCanceled
SpecBusShared == InitQ /\ [][NextBusShared]_vars

\* The cron package and the bus at rest.
InitBase == InitBus /\ InitCron /\ store = <<>> /\ InitNext /\ cExpr = ExprEveryMinute
                    /\ cTime = Date(2026, 2, 13, 10, 0)

\* The channel manager with its three adapters.
InitMgr  == InitBase /\ InitReaders /\ InitChan /\ IdleAllow /\ IdleTurn /\ IdleMore
SpecChan == InitMgr /\ [][NextChan]_vars

\* The allow list and the inbound handlers of the adapters.
InitGate  == InitBase /\ InitReaders /\ IdleChan /\ InitAllow /\ IdleTurn /\ IdleMore
SpecAllow == InitGate /\ [][NextAllow]_vars

\* The agent's loops.
InitAgent == InitBase /\ InitReaders /\ IdleChan /\ IdleAllow /\ InitTurn /\ IdleMore
SpecTurn  == InitAgent /\ [][NextTurn]_vars

\* The gateway's agent with its subagents; --max-iters 2.
InitSpawner == InitBase /\ InitReaders /\ IdleChan /\ IdleAllow /\ InitTurn /\ InitSpawn
                        /\ IdleTools /\ IdleBeat /\ IdleIndex /\ IdleLate
InitSpawnerTwo == InitSpawner /\ maxIters = 2
SpecSpawn == InitSpawnerTwo /\ [][NextSpawn]_vars

\* The tool registry.
InitRegistry == InitBase /\ InitReaders /\ IdleChan /\ IdleAllow /\ IdleTurn /\ IdleSpawn
                         /\ InitTools /\ IdleBeat /\ IdleIndex /\ IdleLate
SpecTools == InitRegistry /\ [][NextTools]_vars

\* The heartbeat service.
InitHeart == InitBase /\ InitReaders /\ IdleChan /\ IdleAllow /\ IdleTurn /\ IdleSpawn
                      /\ IdleTools /\ InitBeat /\ IdleIndex /\ IdleLate
SpecBeat == InitHeart /\ [][NextBeat]_vars

\* The memory index.
InitStore == InitBase /\ InitReaders /\ IdleChan /\ IdleAllow /\ IdleTurn /\ IdleSpawn
                      /\ IdleTools /\ IdleBeat /\ InitIndex /\ IdleLate
SpecIndex == InitStore /\ [][NextIndex]_vars

\* The cron service with repeating jobs: time passes, a timer that is due
\* fires, a handler that was called returns, and onTimer goes on.
InitTimer == InitRepeating /\ InitBus /\ InitNext /\ InitExt /\ cExpr = ExprEveryMinute
                          /\ cTime = Date(2026, 2, 13, 10, 0)
SpecRepeat ==
    /\ InitTimer /\ [][NextRepeating]_vars
    /\ WF_vars(Elapse)
    /\ WF_vars(onTimer)
    /\ WF_vars(SweepExecute)
    /\ WF_vars(SweepReturns(""))
    /\ WF_vars(SweepFinish)

\* The agent's consolidation scheduler.
InitScheduler == InitBase /\ InitExt
SpecConsol == InitScheduler /\ [][NextConsol]_vars

\* The chunks of a file of one line.
InitChunk == InitBase /\ InitExt
SpecChunk == InitChunk /\ [][NextChunk]_vars

\* The replies of the heartbeat handler.
InitReply == InitBase /\ InitExt
SpecReply == InitReply /\ [][NextReply]_vars

\* Sends of the WhatsApp channel.
InitWa == InitBase /\ InitExt
SpecWa == InitWa /\ [][NextWa]_vars

\* The heartbeat service started and stopped in any order.
InitLife == InitBase /\ InitExt
SpecLife == InitLife /\ [][NextLife]_vars

\* The gateway.
InitGateway == InitBase /\ InitExt
SpecGateway == InitGateway /\ [][NextGateway]_vars

\* The cron service with repeating jobs, its callers and its timer callbacks.
SpecSweeps == InitTimer /\ [][NextSweeps]_vars

\* The cron service with a reminder: the same steps and the same fairness.
InitOnce == InitReminders /\ InitBus /\ InitNext /\ InitExt /\ cExpr = ExprEveryMinute
                          /\ cTime = Date(2026, 2, 13, 10, 0)
SpecOnce ==
    /\ InitOnce /\ [][NextRepeating]_vars
    /\ WF_vars(Elapse)
    /\ WF_vars(onTimer)
    /\ WF_vars(SweepExecute)
    /\ WF_vars(SweepReturns(""))
    /\ WF_vars(SweepFinish)

InitSpawnerOne == InitSpawner /\ maxIters = 1

\* The same with --max-iters 1 and with the scheduler running every goroutine
\* that can run: a subagent's run returns, a publish that finds room happens,
\* the model answers, and Loop.Run goes on.
SpecSpawnLive ==
    /\ InitSpawnerOne /\ [][NextSpawn]_vars
    /\ \A id \in 1..MaxSpawns :
          /\ WF_vars(\E failed \in BOOLEAN : SubagentReturns(id, failed))
          /\ SF_vars(SubAnnounce(id))
    /\ WF_vars(TurnEnds)
    /\ WF_vars(RunPublish)
    /\ WF_vars(ProcessDirectReturns)
    /\ WF_vars(RunConsumeAnnouncement)

-----------------------------------------------------------------------------
(* Properties of the cron expression functions (SpecNext).                 *)

\* parseCron5 accepted cExpr and dayMatches has answered.
Parsed == cPc \in {"parsed", "n1", "n2"}

domMatch == hasBit(parseCron5(cExpr).dom, Day(cTime))
dowMatch == hasBit(parseCron5(cExpr).dow, Weekday(cTime))

\* C8, as stated: for every parseable expression E and every time t,
\* Next(E, Next(E, t)) is strictly later than Next(E, t).
C8_NextStrictlyLater == cPc = "n2" => TimeLess(cN1, cN2)

\* C8, amended: whenever Next(E, Next(E, t)) is not the zero time it is
\* strictly later than Next(E, t).  Next answers the zero time when E has no
\* match before the sixth year after its argument.
C8_NextStrictlyLaterUnlessZero ==
    (cPc = "n2" /\ cN2 # ZeroTime) => TimeLess(cN1, cN2)

\* "0 9 * * 1-5" asked on Friday 10:00 answers Monday 09:00 and then Tuesday 09:00.
C8_Witness ==
    /\ cPc = "n2"
    /\ cExpr = ExprWeekdays9
    /\ cTime = Date(2026, 2, 13, 10, 0)
    /\ cN1 = Date(2026, 2, 16, 9, 0)
    /\ cN2 = Date(2026, 2, 17, 9, 0)

\* C9, as stated: when both the day-of-month and the day-of-week field are
\* `*` the day matches; otherwise it matches if the day-of-month field or the
\* day-of-week field matches it.
C9_EitherFieldMatches ==
    Parsed => cDay = (IF parseCron5(cExpr).domStar /\ parseCron5(cExpr).dowStar
                      THEN TRUE
                      ELSE domMatch \/ dowMatch)

\* C9, amended: when both fields are `*` the day matches; when exactly one
\* is `*` the other field alone decides; only when neither is `*` does the
\* day match if either field matches.
C9_RestrictedFieldDecides ==
    Parsed =>
        LET s == parseCron5(cExpr)
        IN  /\ (s.domStar /\ s.dowStar) => cDay
            /\ (s.domStar /\ ~s.dowStar) => (cDay = dowMatch)
            /\ (~s.domStar /\ s.dowStar) => (cDay = domMatch)
            /\ (~s.domStar /\ ~s.dowStar) => (cDay = (domMatch \/ dowMatch))

\* "0 9 * * 1-5" does not match Saturday 2026-02-14.
C9_Witness ==
    /\ cPc = "parsed"
    /\ cExpr = ExprWeekdays9
    /\ Weekday(cTime) = 6
    /\ ~cDay

-----------------------------------------------------------------------------
(* Properties of the bus (SpecBus).                                        *)

IsPrefix(a, b) == Len(a) <= Len(b) /\ \A i \in 1..Len(a) : a[i] = b[i]

Occurrences(q, m) == Cardinality({i \in 1..Len(q) : q[i] = m})

\* Every message of `published` is in exactly one place, once.
EachOnce(published, places) ==
    /\ Len(places) = Len(published)
    /\ \A i \in 1..Len(published) : Occurrences(places, published[i]) = 1

RECURSIVE ExpectedSends(_)
ExpectedSends(consumed) ==
    IF consumed = <<>> THEN <<>>
    ELSE LET m == consumed[Len(consumed)]
             before == ExpectedSends(SubSeq(consumed, 1, Len(consumed) - 1))
         IN  IF m.channel \in Registered
             THEN Append(before, [on |-> m.channel, msg |-> m])
             ELSE before

\* C12: for each outbound message it consumes the dispatcher calls Send
\* exactly once, on the registered channel named by the message; a message
\* for a channel that is not registered gets no Send, and the dispatcher goes
\* on with the messages after it.
C12_OneSendPerMessage == sent = ExpectedSends(conOut)

\* The dispatcher has dropped a message and then sent one on each channel.
C12_Witness ==
    /\ Len(conOut) >= 3
    /\ conOut[1].channel = "nowhere"
    /\ Len(sent) = 2
    /\ sent[1].on # sent[2].on

-----------------------------------------------------------------------------
(* Properties of the channel manager and the adapters (SpecChan).          *)

\* C13: for every adapter, a Send issued while the channel is not running
\* fails with a "not connected" error, and the manager does not retry: it
\* calls Send once for each message it delivers.
C13_SendWhileNotRunningFails ==
    /\ (lastSend # NoSend /\ ~lastSend.running) => lastSend.result = "not connected"
    /\ sendCalls = delivered

\* C14: once StartAll has returned, the outbound dispatcher is started and
\* Start has been called on every registered channel, whatever the Start of
\* any other channel did (failed, still on its way, blocked for good); and a
\* channel whose Start has its client can go on to set running.
C14_StartAllStartsEveryChannel ==
    startAllRet =>
        /\ dispatcherUp
        /\ \A a \in Adapters :
             /\ chPc[a] # "idle"
             /\ chPc[a] = "client" => ENABLED StartSetsRunning(a)

\* StartAll has returned; one Start has failed, one has not got anywhere, one
\* is running, and the dispatcher has had a message posted.
C14_Witness ==
    /\ startAllRet
    /\ \E a, b, c \in Adapters :
         /\ ~cfgOk[a] /\ chPc[a] = "returned"
         /\ chPc[b] = "spawned" /\ cfgOk[b]
         /\ chPc[c] = "running" /\ chRunning[c]
    /\ lastSend # NoSend /\ lastSend.result = "posted"

-----------------------------------------------------------------------------
(* Properties of the allow list and the inbound handlers (SpecAllow).      *)

Greatest(S) == CHOOSE x \in S : \A y \in S : y <= x

\* s without the blanks around it.
Trimmed(s) ==
    LET solid == {i \in 1..Len(s) : s[i] # " "}
    IN  IF solid = {} THEN <<>> ELSE SubSeq(s, Least(solid), Greatest(solid))

\* The components of s: the longest stretches of s without a `|`.
Components(s) ==
    { SubSeq(s, i, j) : <<i, j>> \in
        { ij \in (1..Len(s) + 1) \X (0..Len(s)) :
            /\ ij[2] >= ij[1] - 1
            /\ \A k \in ij[1]..ij[2] : s[k] # "|"
            /\ ij[1] = 1 \/ s[ij[1] - 1] = "|"
            /\ ij[2] = Len(s) \/ s[ij[2] + 1] = "|" } }

\* C16 as stated: Allowed returns true when the list is empty; with a
\* non-empty list, exactly when sender_id equals a list entry or one of its
\* `|`-separated components equals a list entry.
C16_AllowedIffEntryOrComponent ==
    ev # NoEvent =>
        ev.allowed = (\/ allowFrom = <<>>
                      \/ Contains(allowFrom, ev.sender)
                      \/ \E c \in Components(ev.sender) : Contains(allowFrom, c))

\* The sender ids a list admits: the id without the blanks around it is not
\* empty and is an entry, or one of its components without the blanks
\* around it is not empty and is an entry.
Admitted(list, sender) ==
    /\ Trimmed(sender) # <<>>
    /\ \/ Contains(list, Trimmed(sender))
       \/ \E c \in Components(Trimmed(sender)) :
            Trimmed(c) # <<>> /\ Contains(list, Trimmed(c))

\* C16, amended: Allowed returns true when the list is empty; with a
\* non-empty list, exactly when sender_id with the white space around it
\* removed is not empty and equals a list entry, or one of its `|`-separated
\* components, white space removed, is not empty and equals a list entry.
C16_AllowedIffTrimmedEntryOrComponent ==
    ev # NoEvent =>
        ev.allowed = (allowFrom = <<>> \/ Admitted(allowFrom, ev.sender))

\* Allowed has let a sender through for one component of a compound id that
\* has white space around it and is not itself an entry.
C16_Witness ==
    /\ ev # NoEvent
    /\ allowFrom # <<>>
    /\ ev.allowed
    /\ Contains(ev.sender, "|")
    /\ ~Contains(allowFrom, ev.sender)
    /\ ev.sender # Trimmed(ev.sender)

\* C15 as stated: with a non-empty allowFrom, an event whose sender_id is
\* not in allowFrom leads to no publication on the bus and to no outbound
\* side effect.
C15_UnlistedSenderIgnored ==
    (ev # NoEvent /\ allowFrom # <<>> /\ ~Contains(allowFrom, ev.sender)) =>
        ~ev.published /\ ~ev.reacted

\* C15, amended: with a non-empty allowFrom, an event whose sender_id the
\* list does not admit (neither the id nor a `|`-separated component of it,
\* white space aside, is an entry) leads to no publication on the bus and to
\* no outbound side effect.
C15_UnadmittedSenderIgnored ==
    (ev # NoEvent /\ allowFrom # <<>> /\ ~Admitted(allowFrom, ev.sender)) =>
        ~ev.published /\ ~ev.reacted

\* A slack event of a sender the list does not admit has been handled.
C15_Witness ==
    /\ ev # NoEvent
    /\ ev.adapter = "slack"
    /\ allowFrom # <<>>
    /\ ev.sender # <<>>
    /\ ~Admitted(allowFrom, ev.sender)
    /\ ~ev.allowed

-----------------------------------------------------------------------------
(* Properties of the agent's loops (SpecTurn).                             *)

\* One more call of llm.Chat in the running loop.
LLMCall ==
    \/ ChatFails
    \/ \E text \in ModelTexts : ChatToolCalls(text)
    \/ \E text \in ModelTexts : ChatFinal(text)

C18_ExhaustedReturnsLastText ==
    tPc = "exhausted" =>
        tRet = (IF lastText = "" THEN NoResponse ELSE lastText)

CameFrom(msg) ==
    IF msg.channel = "system"
    THEN [channel |-> msg.chat[1], chat |-> <<msg.chat[3]>>]
    ELSE [channel |-> msg.channel, chat |-> msg.chat]

-----------------------------------------------------------------------------
(* Properties of the spawn tool and the `system` channel (SpecSpawn).      *)

\* The running turn is the turn of an announcement.
SystemTurn == tKind = "loop" /\ tMsg.channel = "system"

\* What Loop.Run publishes when the running turn has returned.
ReplyTo(origin) ==
    [channel |-> origin.channel, chat |-> origin.chat,
     content |-> IF tPc = "failed" THEN "error: " ELSE tRet]

\* The turn of an announcement writes the session `key` and no other, and
\* Loop.Run answers it with one outbound message to `origin`.
RoutedTo(origin, key) ==
    /\ \A q \in SessionKeys \ {key} : session'[q] = session[q]
    /\ (tPc = "calling" /\ tPc' \in {"done", "exhausted"}) =>
            Len(session'[key]) = Len(session[key]) + 2
    /\ (tPc # "idle" /\ tPc' = "idle") => gwOut' = Append(gwOut, ReplyTo(origin))

Announced == {id \in DOMAIN subs : subs[id].published = 1}

\* C22: spawn returns while the subagent is still to run and the turn goes
\* on; the goroutine publishes at most once, and what it publishes is an
\* inbound message on `system` whose chat_id is the origin channel, ":" and
\* the origin chat id of the turn that called spawn; nothing else enters the
\* queue; and every goroutine started does publish, whether its run
\* returned a result or an error.
C22_SpawnAnnouncedOnce ==
    /\ [][ Len(subs') > Len(subs) =>
              /\ Len(subs') = Len(subs) + 1
              /\ subs'[Len(subs')].pc = "running"
              /\ subs'[Len(subs')].published = 0
              /\ subs'[Len(subs')].origin = toolsContext
              /\ sysIn' = sysIn
              /\ tPc' = "calling" ]_vars
    /\ [](\A id \in DOMAIN subs : subs[id].published <= 1)
    /\ [][ Len(sysIn') > Len(sysIn) =>
              \E id \in DOMAIN subs :
                  /\ subs[id].published = 0
                  /\ Announced' = Announced \cup {id}
                  /\ sysIn' = Append(sysIn,
                        [channel |-> "system", sender |-> id,
                         chat |-> <<subs[id].origin.channel, ":">> \o subs[id].origin.chat,
                         sessionKey |-> <<>>]) ]_vars
    /\ \A id \in 1..MaxSpawns :
          (id \in DOMAIN subs) ~> (id \in DOMAIN subs /\ subs[id].published = 1)

\* Two subagents were spawned; the run of the first failed and that of the
\* second succeeded, and both have announced.
C22_Witness ==
    /\ Len(subs) = 2
    /\ subs[1].failed /\ subs[1].pc = "ended" /\ subs[1].published = 1
    /\ ~subs[2].failed /\ subs[2].pc = "ended" /\ subs[2].published = 1

-----------------------------------------------------------------------------
(* Properties of the tool registry (SpecTools).                            *)

\* The tools a subagent must not run.
Forbidden == {"message", "spawn", "cron"}

\* Execute has failed with the tool-disabled error and has run nothing.
Disabled == call.res = Result("tool disabled", "none", <<>>)

\* C23: the registry of a subagent never advertises message, spawn or cron,
\* a call of one of them fails with the tool-disabled error and runs and
\* publishes nothing, and whatever name is called, the body that runs is none
\* of the three.
C23_SubagentCannotMessageSpawnCron ==
    reg.owner = "subagent" =>
        /\ defs # NoDefs => \A i \in DOMAIN defs : defs[i] \notin Forbidden
        /\ call # NoCall =>
              /\ call.name \in Forbidden => Disabled
              /\ call.res.ran \notin Forbidden
              /\ call.res.pub = <<>>

\* The subagent of a loop with a Brave key has been given its definitions,
\* web_search among them, and its call of spawn has failed.
C23_Witness ==
    /\ reg.owner = "subagent"
    /\ defs = <<"read_file", "write_file", "list_dir", "exec", "web_fetch", "web_search">>
    /\ call # NoCall
    /\ call.name = "spawn"
    /\ call.args.parses
    /\ call.res.err = "tool disabled"

MessageCall ==
    /\ call # NoCall
    /\ call.name = "message"
    /\ allowed(reg, "message")
    /\ call.args.parses

\* The requested channel or chat id is missing; it is the chat of the caller.
TargetMissing == TrimSpace(call.args.channel) = <<>> \/ TrimSpace(call.args.chat) = <<>>
TargetCurrent ==
    /\ TrimSpace(call.args.channel) = call.tctx.channel
    /\ TrimSpace(call.args.chat) = call.tctx.chat

\* The one outbound message to the requested target.
PublishedToTarget ==
    /\ Len(call.res.pub) = 1
    /\ call.res.pub[1].channel = TrimSpace(call.args.channel)
    /\ call.res.pub[1].chat = TrimSpace(call.args.chat)

\* C25, as stated: the message tool fails and publishes nothing when the
\* requested channel and chat id are those of the current session or when
\* one of them is missing; for any other target with non-empty content it
\* publishes exactly one outbound message to that target (Outbound being
\* configured).
C25_MessageToOtherTargetPublishes ==
    MessageCall =>
        /\ (TargetMissing \/ TargetCurrent) => (call.res.err # "" /\ call.res.pub = <<>>)
        /\ (/\ ~TargetMissing
            /\ ~TargetCurrent
            /\ call.args.content # <<>>
            /\ "Outbound" \in reg.caps) => PublishedToTarget

\* C25, amended: the same, where the content must hold more than white space
\* and is published without the white space around it, and where a publish
\* that fails makes the tool fail with nothing published.
C25_MessageToOtherTargetPublishesNonBlank ==
    MessageCall =>
        /\ (TargetMissing \/ TargetCurrent) => (call.res.err # "" /\ call.res.pub = <<>>)
        /\ (~TargetMissing /\ ~TargetCurrent /\ "Outbound" \in reg.caps) =>
              IF TrimSpace(call.args.content) = <<>> \/ call.args.fails
              THEN call.res.err # "" /\ call.res.pub = <<>>
              ELSE /\ call.res.err = ""
                   /\ PublishedToTarget
                   /\ call.res.pub[1].content = TrimSpace(call.args.content)

\* A turn of the slack chat c1 has sent "hi" to the discord chat c1.
C25_Witness ==
    /\ MessageCall
    /\ call.tctx = [channel |-> <<"slack">>, chat |-> <<"c1">>]
    /\ call.args.channel = <<"discord">>
    /\ call.args.chat = <<"c1">>
    /\ call.res.err = ""
    /\ call.res.pub = << [channel |-> <<"discord">>, chat |-> <<"c1">>, content |-> <<"hi">>] >>

\* C26: Execute of a capability-gated tool (web_search, message, spawn, cron,
\* read_skill, memory_search, memory_get) whose capability is not configured,
\* so that Definitions does not advertise it, returns an error.
C26_UnadvertisedGatedToolErrors ==
    (/\ call # NoCall
     /\ call.name \in DOMAIN Capability
     /\ Capability[call.name] \notin reg.caps
     /\ ~Contains(Definitions(reg), call.name)) => call.res.err # ""

-----------------------------------------------------------------------------
(* Properties of the heartbeat (SpecBeat).                                 *)

\* The invocations of the handler that are in progress.
InProgress == hbManual + (IF hbLoop = "handler" THEN 1 ELSE 0)

\* C27: at most one invocation of the heartbeat handler is in progress at any
\* time, whether it was started by a tick or by TriggerNow.
C27_AtMostOneHeartbeatRun == InProgress <= 1

-----------------------------------------------------------------------------
(* Properties of the memory index (SpecIndex).                             *)

\* The ids the chunks of the memory files on disk have under the configuration.
OnDiskChunkIDs ==
    UNION { { r.id : r \in chunkRows(p, disk[p], cfg.model) } :
              p \in { q \in DOMAIN disk : disk[q] # Absent } }

\* The ids of the rows of chunks.
ChunkIDs == { r.id : r \in chunks }

\* The last step was a Sync that returned nil.
Synced == lastSync.ran /\ lastSync.ok

\* After a sync that succeeded, every chunk of every memory file on disk has its
\* row in chunks.
DiskChunksIndexed == Synced => OnDiskChunkIDs \subseteq ChunkIDs

\* After a sync that succeeded, every row of chunks_fts has the id of a row of
\* chunks.
FtsRowsInChunks == Synced => { r.id : r \in chunks_fts } \subseteq ChunkIDs

\* C28: after every sync that succeeded, whatever creations, edits and deletions
\* of memory files came before it, every chunk of every memory file on disk has
\* a row in chunks, and every row of chunks_vec and of chunks_fts has an id that
\* is in chunks.
C28_IndexMatchesDisk ==
    Synced => /\ OnDiskChunkIDs \subseteq ChunkIDs
              /\ chunks_vec \subseteq ChunkIDs
              /\ { r.id : r \in chunks_fts } \subseteq ChunkIDs

\* A Sync has just run on an index that the last successful Sync left, with no
\* memory file and no setting changed in between.
SecondSync == lastSync.ran /\ lastSync.clean

\* C29, as stated: running sync a second time, with no change to the memory
\* files or to the configuration, writes no row of chunks, chunks_vec or
\* chunks_fts and calls the embedding endpoint not once.
C29_SecondSyncWritesNothing ==
    SecondSync => ~lastSync.wrote /\ lastSync.calls = 0

\* C29, amended: the same of a sync that is not forced (Sync with force false, and
\* the sync of Search); it succeeds as well.
C29_SecondUnforcedSyncWritesNothing ==
    SecondSync /\ ~lastSync.force => lastSync.ok /\ ~lastSync.wrote /\ lastSync.calls = 0

\* A second sync, not forced, over an index that holds a file of two chunks, one
\* of them blank, and an empty file.
C29_Witness ==
    /\ SecondSync
    /\ ~lastSync.force
    /\ disk["MEMORY.md"] = <<BlankLine, "b">>
    /\ disk["memory/a.md"] = <<>>
    /\ chunks # {}
    /\ files["memory/a.md"] = hashText(<<>>)

-----------------------------------------------------------------------------
(* Properties of the cron Service (Spec).                                  *)

JobOf(st, id) == st[IndexOf(st, id)]
Has(st, id)   == IndexOf(st, id) # 0

\* The job onTimer is executing, or has just handed to execute.
SweepJob == sweep.due[sweep.i]

\* C1, as stated: every enabled job has next_run_ms > 0 in every state
\* reached through Start, Add, Remove, Toggle, RunNow and timer sweeps.
C1_EnabledHasNextRun ==
    \A i \in 1..Len(store) : store[i].enabled => store[i].nextRun > 0

\* C2, as stated: while the service runs and an enabled job has a
\* next_run_ms, a timer is pending and fires no later than the earliest
\* next_run_ms (or at once when that has passed).  The states in which the
\* timer callback is at work are left out: it re-arms when it finishes.
C2_TimerArmedForEarliest ==
    (running /\ sweep.pc = "idle" /\ nextWakeMSLocked(store) > 0)
        => (timer # 0 /\ timer <= max64(nextWakeMSLocked(store), now))

AtJobRetired(id) ==
    (Has(store, id) /\ JobOf(store, id).sched.kind = "at") =>
        IF JobOf(store, id).deleteAfterRun
        THEN ~Has(store', id)
        ELSE /\ Has(store', id)
             /\ ~JobOf(store', id).enabled
             /\ JobOf(store', id).nextRun = 0

Rescheduled(id, start) ==
    (Has(store', id) /\ JobOf(store', id).enabled
                     /\ JobOf(store', id).sched.kind \in {"every", "cron"}) =>
        /\ JobOf(store', id).nextRun > now
        /\ JobOf(store', id).nextRun > start
        /\ JobOf(store', id).lastRun = start

ErrorRecorded(id, err) ==
    /\ Has(store', id)
    /\ JobOf(store', id).lastStatus = "error"
    /\ JobOf(store', id).lastError = err

EnabledKept(id) ==
    /\ Has(store', id)
    /\ JobOf(store', id).enabled = JobOf(store, id).enabled

AfterError(id, err) ==
    Has(store, id) =>
        IF JobOf(store, id).sched.kind = "at"
        THEN AtJobRetired(id) /\ (Has(store', id) => ErrorRecorded(id, err))
        ELSE ErrorRecorded(id, err) /\ EnabledKept(id)

Rejectable(s) ==
    \/ s.kind = "every" /\ s.everyMS <= 0
    \/ s.kind = "cron" /\ ~parseCron5(s.expr).ok
    \/ s.kind = "at" /\ s.atMS <= now
    \/ s.kind \notin {"at", "every", "cron"}

\* C6: Add returns an error for an every schedule with every_ms <= 0, a cron
\* schedule that does not parse, an at schedule not strictly in the future
\* and an unknown kind; and an Add that returns an error leaves the
\* persisted store as it was.
C6_InvalidAddRejected ==
    [][ /\ \A s \in AddScheds :
             (Rejectable(s) /\ Add(s)) =>
                 (ret'.op = "Add" /\ ret'.err # "" /\ store' = store)
        /\ (ret' # ret /\ ret'.op = "Add" /\ ret'.err # "") => store' = store ]_vars

\* Add has turned down a cron expression that does not parse.
C6_Witness == ret = [op |-> "Add", err |-> "invalid cron expression"]

\* C7: RunNow on a disabled job without force returns an error, does not
\* invoke the handler and leaves the job as it is; with force, or on an
\* enabled job, it invokes the handler at once, whatever next_run_ms is.
C7_RunNowNeedsForce ==
    [][ \A id \in JobIds, force \in BOOLEAN :
          (RunNow(id, force) /\ Has(store, id)) =>
              IF ~JobOf(store, id).enabled /\ ~force
              THEN /\ ret' = [op |-> "RunNow", err |-> "job disabled"]
                   /\ rn' = rn
                   /\ store' = store
              ELSE /\ rn' = [pc |-> "handler", id |-> id, start |-> now]
                   /\ ret' = ret ]_vars

\* RunNow has turned down a disabled job that is still in the store.
C7_Witness ==
    /\ ret = [op |-> "RunNow", err |-> "job disabled"]
    /\ \E i \in 1..Len(store) : ~store[i].enabled

\* Properties of the running service with repeating jobs (SpecRepeat).

\* The service runs and the i-th job of the store is enabled.
Awaited(i) ==
    /\ running
    /\ i <= Len(store)
    /\ store[i].enabled

\* onTimer is in the handler of the i-th job of the store.
Executing(i) ==
    /\ sweep.pc = "handler"
    /\ i <= Len(store)
    /\ sweep.due[sweep.i] = store[i].id

\* The job of the store with this period.
JobEvery(ms) == CHOOSE i \in 1..Len(store) : store[i].sched.everyMS = ms

\* The job for every minute is executed again and again.
ShortJobRunsAgain == Awaited(JobEvery(ShortPeriod)) ~> Executing(JobEvery(ShortPeriod))

\* C30: while the service runs, every enabled `every` or `cron` job is executed
\* again and again, the job with the longer period too, whatever sweeps the
\* timer makes for the job with the shorter one.
C30_EveryJobRunsAgain == \A i \in 1..2 : Awaited(i) ~> Executing(i)

\* Properties of the running service with a reminder (SpecOnce).

\* The service runs, the i-th job of the store is an enabled `at` job and its
\* time has come.
AtJobIsDue(i) ==
    /\ running
    /\ i <= Len(store)
    /\ store[i].sched.kind = "at"
    /\ store[i].enabled
    /\ now >= store[i].sched.atMS

\* A reminder that is the only job of the store is executed when its time has
\* come.
LoneReminderRuns == (Len(store) = 1 /\ AtJobIsDue(1)) ~> Executing(1)

\* C31: an enabled `at` job that Add accepted is executed once the service runs
\* at or after the job's time, also when that time comes while the handler of
\* another job is at work or before onTimer re-arms the timer.
C31_AtJobRuns == \A i \in 1..2 : AtJobIsDue(i) ~> Executing(i)

\* Properties of the running service with its callers (SpecSweeps).

\* A timer callback calls the handler of job id.
HandlerStarts(id) ==
    \/ SweepExecute /\ sweep.due[sweep.i] = id
    \/ AgainExecute /\ sweep2.due[sweep2.i] = id

\* Job id was handed out and is not in the store.  No job of this store has
\* delete_after_run, so it is Remove that took it out.
Gone(id) == id < nextId /\ IndexOf(store, id) = 0

\* A job leaves the store in a step of Remove only.
OnlyRemoveDeletes ==
    [][ \A id \in 0..1 : (~Gone(id) /\ Gone(id)') => store' = SelectSeq(store, LAMBDA j : j.id # id)
                                                     /\ calls' = calls + 1 ]_vars

\* A job that Remove took out of the store does not come back.
GoneStaysGone == [][ \A id \in 0..1 : Gone(id) => Gone(id)' ]_vars

\* C32: once Remove(id) has returned true no handler invocation for the job
\* starts, not from a sweep that had collected it as due either, and no later
\* store contains the job.
C32_RemovalIsFinal ==
    [][ \A id \in 0..1 : Gone(id) => (~HandlerStarts(id) /\ Gone(id)') ]_vars

\* The onTimer callbacks that have not returned.
SweepsAtWork == {k \in {1, 2} : IF k = 1 THEN sweep.pc # "idle" ELSE sweep2.pc # "idle"}

\* The handlers the timer callbacks are in.
HandlersAtWork == {k \in {1, 2} : IF k = 1 THEN sweep.pc = "handler" ELSE sweep2.pc = "handler"}

\* While one onTimer is at work a timer is armed only by a Start that finds the
\* service stopped.
ArmedDuringSweepOnlyByStart ==
    [][ (sweep.pc # "idle" /\ sweep'.pc # "idle" /\ sweep2.pc = "idle" /\ sweep2'.pc = "idle"
            /\ timer' # 0 /\ timer' # timer)
            => (~running /\ running') ]_vars

\* Two timer callbacks are in the handler of the same job.
SameJobTwice ==
    /\ HandlersAtWork = {1, 2}
    /\ sweep.due[sweep.i] = sweep2.due[sweep2.i]

\* onTimer lists a job once among the jobs it found due.
DueOnce ==
    \A i, k \in 1..Len(sweep.due) : sweep.due[i] = sweep.due[k] => i = k

\* C33: the handlers the timer triggers run one at a time, and two sweeps of
\* the service are never at work at the same time, across Stop followed by
\* Start too.
C33_OneSweepAtATime ==
    /\ Cardinality(SweepsAtWork) <= 1
    /\ Cardinality(HandlersAtWork) <= 1

\* A service that is stopped has no timer pending.
StoppedHasNoTimer == ~running => timer = 0

\* C34: after Stop has returned no handler invocation starts and no timer is
\* armed, also when a timer callback or a sweep was under way when Stop was
\* called.
C34_NothingStartsAfterStop ==
    [][ ~running => /\ ~(running' = running /\ (SweepExecute \/ AgainExecute))
                    /\ (running' = running => timer' = 0) ]_vars

\* Properties of the gateway (SpecGateway).

\* Loop.Run and the heartbeat's handler are both in a turn.
TwoTurns == gLoop # NoTurn /\ gBeat # NoTurn

InFlight == consWorking + consSaving

\* The flag is set exactly while a consolidation is in progress.
FlagMeansInFlight == consolidationRunning <=> InFlight = 1

\* C36: for a session at most one consolidation is in progress at any time, and
\* a request that arrives while one is in flight is dropped: it starts nothing
\* then, and nothing starts later on its account.
C36_OneConsolidation ==
    /\ [](InFlight <= 1)
    /\ [][ /\ (consAsked' = consAsked + 1 /\ InFlight = 1) =>
                  (InFlight' = 1 /\ consStarted' = consStarted)
           /\ InFlight' > InFlight => (consAsked' = consAsked + 1 /\ InFlight = 0) ]_vars

\* A request has been dropped and the consolidation it met is still in flight.
C36_Witness == consDropped > 0 /\ InFlight = 1 /\ consStarted = 1

\* Properties of the heartbeat started and stopped in any order (SpecLife).

\* A tick begins: Service.tick calls the handler.
TickBegins == lHandler' > lHandler

\* After Stop has returned, and until Start is called again, no tick begins.
NoTickAfterStop == [][ lStopped => ~TickBegins ]_vars

\* A call of Stop that waits can return, or will be able to once a loop that
\* is still there has returned.
StopCanReturn == (lWaiting = 1 /\ lPanic = "") => (lStoppedCh \/ lSelect + lHandler > 0)

\* The process panics only when a loop returns after a Stop has closed stopCh,
\* or in a Stop.
PanicOnlyAfterStop == lPanic # "" => lStopCh

\* C37: any sequence of calls of Start and Stop, with or without the context
\* being cancelled, completes without a panic (no channel is closed twice) and
\* without a Stop that can never return, and once Stop has returned no further
\* tick runs.
C37_StartStopSafe ==
    /\ [](lPanic = "")
    /\ []StopCanReturn
    /\ NoTickAfterStop

\* Properties of the WhatsApp send (SpecWa).

\* The errors after which another attempt is worth making: rate limit, not
\* connected, server errors, timeouts.
TransientErrors ==
    { ErrIQRateOverLimit, ErrNotConnected, ErrIQInternalServerError, ErrIQServiceUnavailable,
      ErrIQPartialServerError, ErrMessageTimedOut, NetTimeout }

\* Send calls wa.SendMessage once more.
FurtherAttempt == waCalls' = waCalls + 1 /\ waCalls >= 1

\* The backoff grows from 300 ms by doubling.
BackoffDoubles == waPc = "wait" => shouldRetryWhatsAppSend(waErr, waAttempt).wait = 300 * 2 ^ (waAttempt - 1)

\* C38: a send calls wa.SendMessage at most 3 times; it calls it again only
\* after a transient error, never after a generic error or a context error;
\* and when the context is cancelled before or during the backoff wait, the
\* send returns the context's error without another call.
C38_BoundedRetries ==
    /\ [](waCalls <= 3)
    /\ [][ FurtherAttempt => (waErr \in TransientErrors /\ waErr # ErrBadRequest) ]_vars
    /\ [][ (waPc = "wait" /\ waCtx /\ waPc' # "wait")
              => (waPc' = "idle" /\ waRet' = ContextCanceled /\ waCalls' = waCalls) ]_vars

\* The second send of a run has called wa.SendMessage three times and given
\* up with the transient error of the third call.
C38_Witness ==
    /\ waPc = "idle"
    /\ waCalls = 3
    /\ waRet \in TransientErrors
    /\ waSends = 2

\* Properties of the heartbeat reply (SpecReply).

\* The reply without its spaces and underscores, in upper case.
RECURSIVE Folded(_)
Folded(s) ==
    IF s = <<>> THEN <<>>
    ELSE IF Head(s) \in {" ", "_"} THEN Folded(Tail(s))
    ELSE <<ToUpper(Head(s))>> \o Folded(Tail(s))

\* The reply equals the OK token but for case, spaces and underscores.
EqualsToken(s) == Folded(s) = Folded(OKToken)

\* Some part of the reply is the OK token but for case and for characters
\* that are neither letters nor digits.
HoldsToken(s) ==
    \E i \in 1..Len(s) : \E j \in i..Len(s) :
        SelectSeq([k \in 1..(j - i + 1) |-> ToUpper(s[i + k - 1])],
                  LAMBDA c : c \in DigitChars \/ c \in UpperChars)
          = <<"H", "E", "A", "R", "T", "B", "E", "A", "T", "O", "K">>

\* The tick has handled a reply the handler returned without an error.
Replied == rpPc = "done" /\ ~rpErr

\* A reply that equals the token is never logged.
TokenIsNotLogged == (Replied /\ EqualsToken(rpReply)) => rpLog = NoLog

\* C39: a reply is treated as OK, and nothing is logged, exactly when it
\* equals the OK token after differences of case, whitespace and underscores
\* are ignored; every other non-empty reply (one that is more than spaces) is
\* logged.
C39_OkMeansEqual ==
    (Replied /\ TrimSpace(rpReply) # <<>>) => (rpLog = NoLog <=> EqualsToken(rpReply))

\* C39 as the code has it: nothing is logged exactly when the reply holds the
\* token, whatever else it holds, or is empty once trimmed; every other reply
\* is logged, trimmed.
C39_OkMeansHolds ==
    Replied =>
        /\ rpLog = NoLog <=> (HoldsToken(rpReply) \/ TrimSpace(rpReply) = <<>>)
        /\ rpLog # NoLog => rpLog = [kind |-> "response", text |-> TrimSpace(rpReply)]

\* A reply that holds the token and more has not been logged.
C39_Witness ==
    /\ Replied
    /\ HoldsToken(rpReply)
    /\ ~EqualsToken(rpReply)
    /\ rpLog = NoLog

\* Properties of the chunks of a one-line file (SpecChunk).

\* How many times byte b of the line occurs in the chunks.
RECURSIVE TimesIn(_, _)
TimesIn(b, chs) ==
    IF chs = <<>> THEN 0
    ELSE Len(SelectSeq(Head(chs).Text, LAMBDA x : x = b)) + TimesIn(b, Tail(chs))

\* The texts of the chunks one after the other, newlines left out.
RECURSIVE Concatenated(_)
Concatenated(chs) ==
    IF chs = <<>> THEN <<>>
    ELSE SelectSeq(Head(chs).Text, LAMBDA x : x # NL) \o Concatenated(Tail(chs))

Chunked == ckPc = "done"

\* A line of at most max(32, tokens*4) bytes is in the first chunk whole, and
\* no second chunk follows unless the file ends with a newline.
ShortLineOneChunk ==
    (Chunked /\ ckLen <= maxInt(32, ckTokens * 4)) =>
        /\ SelectSeq(ckChunks[1].Text, LAMBDA x : x # NL) = [i \in 1..ckLen |-> i]
        /\ ~ckNewline => Len(ckChunks) = 1

=============================================================================
